---- MODULE Spec2Model ----
(***************************************************************************)
(* State-machine model of the wowauto sequence engine:                     *)
(*   SequenceLoader   (src/wowauto/sequence_loader.py)                     *)
(*   SequenceRunner   (src/wowauto/sequence_runner.py)                     *)
(*   ActionExecutor   (src/wowauto/action_executor.py)                     *)
(*   window gate      (src/wowauto/window_detector.py, src/wowauto.py)     *)
(* and of the form application that runs it on a worker thread:            *)
(*   BackgroundRunner (src/formauto/background_runner.py)                  *)
(*   SettingsForm     (src/formauto/settings_form.py)                      *)
(*                                                                         *)
(* One asyncio event loop runs every task.  A task runs without            *)
(* interruption from one `await asyncio.sleep` to the next; `current` is   *)
(* the task that holds the loop (NoTask when the loop is between           *)
(* callbacks).  Calls of the runner's API are made between task steps.     *)
(* Sleep lengths are abstracted: a sleeping task may wake at any time.     *)
(*                                                                         *)
(* The drivers: Spec (the API called on one running loop), ExecSpec        *)
(* (run_once_sync, one task at a time, lists with chance values, numpad    *)
(* key names, cursor moves and repeat actions), CycleSpec (periodic        *)
(* workers over a store that is loaded again), HostSpec (the form and its  *)
(* worker thread), HotkeySpec (the form with its key listener thread) and  *)
(* BgSpec (a BackgroundRunner with a caller of its own); ExecFairSpec and  *)
(* HostFairSpec add the fairness of the loop and of the worker thread.     *)
(***************************************************************************)
EXTENDS Integers, Sequences, FiniteSets, TLC

VARIABLES
    dry_run,    \* SequenceRunner.dry_run
    gating,     \* TRUE: the gate asks the OS for the focused window; FALSE: always-active stub
    focused,    \* the target window has the focus (environment)
    data,       \* SequenceLoader.data: name -> sequence definition
    order,      \* key order of SequenceLoader.data (dict insertion order)
    tasks,      \* SequenceRunner._tasks: name -> task
    pool,       \* the asyncio.Task objects that exist, by slot
    current,    \* the task that is running on the loop, or NoTask
    out,        \* the input event emitted by the last step, or NoEvent
    result,     \* what the last step returned or raised, or NoResult
    host        \* the settings form and its BackgroundRunner (src/formauto)

vars == <<dry_run, gating, focused, data, order, tasks, pool, current, out, result, host>>

(***************************************************************************)
(* Bounds                                                                  *)
(***************************************************************************)
\* task objects that exist at the same time while the gate is the always-active stub
MaxTasks == 2

\* task objects that exist at the same time while the gate follows the focus
MaxGatedTasks == 1

Slots == 1..(IF MaxTasks > MaxGatedTasks THEN MaxTasks ELSE MaxGatedTasks)
NoTask == 0

(***************************************************************************)
(* JSON values.  A container is [isdict, items]; an action is a record     *)
(* of its fields (the code only ever calls .get on it).                    *)
(***************************************************************************)
EmptyMap == [n \in {} |-> 0]

JList(items) == [isdict |-> FALSE, items |-> items]
JDict(items) == [isdict |-> TRUE, items |-> items]
JDoc(keys, items) == [isdict |-> TRUE, keys |-> keys, items |-> items]

\* the JSON document that json.load reads from the file at path
File(path, doc) == [path |-> path] @@ doc

\* dict.get(k, default)
Get(d, k, default) == IF k \in DOMAIN d THEN d[k] ELSE default

KeyPress == [type |-> "key", action |-> "press", key |-> "a", delay |-> 1]
Wait1 == [type |-> "wait", seconds |-> 1]
Click == [type |-> "mouse", action |-> "click", button |-> "left"]
Bogus == [type |-> "bogus"]
MoveClick == [type |-> "mouse", action |-> "click", button |-> "right", x |-> 10, y |-> 20]

\* the documents that load_file is given
DocA == File("a.json", JDoc(<<"p", "q">>,
             [p |-> JDict([every |-> 10, actions |-> <<KeyPress, Bogus, MoveClick>>]),
              q |-> JDict([every |-> 5, actions |-> <<Click, Wait1>>])]))
DocB == File("b.json", JDoc(<<"sequences">>,
             [sequences |-> JDoc(<<"p", "q">>,
                 [p |-> JList(<<KeyPress, Bogus, MoveClick>>),
                  q |-> JDict([actions |-> <<Click, Wait1>>])])]))
DocC == File("c.json", JDoc(<<"p", "q">>,
             [p |-> JDict([every |-> 0, actions |-> <<KeyPress, Bogus, MoveClick>>]),
              q |-> JDict([every |-> -1, actions |-> <<Click, Wait1>>])]))
DocD == File("d.json", JDoc(<<"q">>,
             [q |-> JDict([every |-> 5, actions |-> <<Click, Wait1>>])]))
DocE == File("e.json", JList(<<KeyPress>>))

Docs == {DocA, DocB, DocC, DocD, DocE}

\* the names the host asks for
Names == {"p", "q"}

(***************************************************************************)
(* Tasks                                                                   *)
(***************************************************************************)
Free == [pc |-> "free"]

\* the awaits: every one is `await asyncio.sleep(...)`
SleepPcs == {"interval", "worker_poll", "rao_poll", "wait", "key_hold",
             "mouse_hold", "mouse_inter", "mouse_move", "mouse_settle", "repeat_sleep"}

\* a finished task
EndPcs == {"returned", "cancelled", "failed"}

NoEvent == [task |-> NoTask]
NoResult == [op |-> "none"]

Event(t, dev, kind, what) == [task |-> t, dev |-> dev, kind |-> kind, what |-> what]
Return(op, name, outcome) == [op |-> op, name |-> name, outcome |-> outcome]

\* what load_file returns for the file at path: a list of names
Loaded(path, names) == [op |-> "load_file", name |-> path, outcome |-> "ok", names |-> names]

\* asyncio.create_task(self._periodic_worker(name, every, actions))
periodic_worker(name, every, actions) ==
    [kind |-> "periodic", name |-> name, every |-> every, actions |-> actions,
     pc |-> "start", i |-> 0, c |-> 0, cancel |-> FALSE,
     begun |-> <<>>, active |-> {}, ran |-> <<>>, draw |-> 0,
     j |-> 0, r |-> 0, w |-> 0]

\* asyncio.create_task(runner.run_once(name))
run_once(name) ==
    [kind |-> "once", name |-> name, every |-> 0, actions |-> <<>>,
     pc |-> "start", i |-> 0, c |-> 0, cancel |-> FALSE,
     begun |-> <<>>, active |-> {}, ran |-> <<>>, draw |-> 0,
     j |-> 0, r |-> 0, w |-> 0]

Live(tk) == tk.pc \notin EndPcs \cup {"free"}

\* the task objects the configuration may use
Capacity == IF gating THEN MaxGatedTasks ELSE MaxTasks

FreeSlots(pl) == {s \in Slots : s <= Capacity /\ pl[s].pc = "free"}
NewSlot(pl) == CHOOSE s \in FreeSlots(pl) : \A u \in FreeSlots(pl) : s <= u

Registered(reg, t) == \E n \in DOMAIN reg : reg[n] = t

\* nothing is in flight: the last event and the last result have been taken
Settled == out = NoEvent /\ result = NoResult

\* the loop is between two callbacks
Idle == current = NoTask /\ Settled

\* WindowDetector.is_target_window_active: the stub that always answers True
\* (window_detector.py), or the test of the foreground window title (wowauto.py)
is_target_window_active == IF gating THEN focused ELSE TRUE

(***************************************************************************)
(* SequenceLoader                                                          *)
(***************************************************************************)
\* the mapping that load_file merges, or the failure
\* variant: a `sequences` wrapper is taken for a sequence of that name
Payload_flat(doc) == doc

\* load_file: the object whose entries are the sequences
Payload(doc) ==
    IF doc.isdict /\ "sequences" \in DOMAIN doc.items /\ doc.items["sequences"].isdict
    THEN doc.items["sequences"]
    ELSE doc

\* dict.update: overwrite by name, new names appended in document order
RECURSIVE AppendNew(_, _)
AppendNew(ord, keys) ==
    IF keys = <<>> THEN ord
    ELSE AppendNew(IF \E k \in 1..Len(ord) : ord[k] = Head(keys)
                   THEN ord ELSE Append(ord, Head(keys)),
                   Tail(keys))

\* variant: the entry of the first load stays
Update_keep(d, m) ==
    [n \in DOMAIN d \cup DOMAIN m |-> IF n \in DOMAIN d THEN d[n] ELSE m[n]]

\* dict.update: the entry of the argument wins
Update(d, m) ==
    [n \in DOMAIN d \cup DOMAIN m |-> IF n \in DOMAIN m THEN m[n] ELSE d[n]]

\* variant: a top level that is no object is read as a document without sequences
load_file_lenient(doc) ==
    /\ Idle
    /\ IF doc.isdict
       THEN /\ data' = Update(data, Payload(doc).items)
            /\ order' = AppendNew(order, Payload(doc).keys)
            /\ result' = Loaded(doc.path, order')
       ELSE /\ result' = Loaded(doc.path, order)
            /\ UNCHANGED <<data, order>>
    /\ out' = NoEvent
    /\ UNCHANGED <<host, dry_run, gating, focused, tasks, pool, current>>

\* load_file, for a file that exists and holds the JSON document doc; the
\* result is list(self.data.keys())
load_file(doc) ==
    /\ Idle
    /\ IF doc.isdict
       THEN /\ data' = Update(data, Payload(doc).items)
            /\ order' = AppendNew(order, Payload(doc).keys)
            /\ result' = Loaded(doc.path, order')
       ELSE /\ result' = Return("load_file", doc.path, "UnsupportedFormat")
            /\ UNCHANGED <<data, order>>
    /\ out' = NoEvent
    /\ UNCHANGED <<host, dry_run, gating, focused, tasks, pool, current>>

\* list_sequences: list(self.data.keys())
list_sequences == order

\* get_sequence
get_sequence(name) == IF name \notin DOMAIN data THEN "KeyError" ELSE data[name]

(***************************************************************************)
(* SequenceRunner: the calls of the host                                   *)
(***************************************************************************)
\* isinstance(seq, list)
IsList(seq) == ~seq.isdict

\* float(seq.get("every", 0))
EveryOf(seq) == Get(seq.items, "every", 0)

\* variant: only a negative interval is refused
InvalidEvery_negative(every) == every < 0

\* every <= 0
InvalidEvery(every) == every <= 0

\* variant: the duplicate check is missing
AlreadyRunning_never(reg, name) == FALSE

\* name in self._tasks
AlreadyRunning(reg, name) == name \in DOMAIN reg

\* variant: a bare list is repeated with a default interval
start_repeating_on_anyshape(pl, reg, name) ==
    LET fail(e) == [pool |-> pl, tasks |-> reg, outcome |-> e] IN
    IF name \notin DOMAIN data THEN fail("NotFound")
    ELSE LET seq == data[name]
             every == IF IsList(seq) THEN 1 ELSE EveryOf(seq)
             actions == IF IsList(seq) THEN seq.items ELSE Get(seq.items, "actions", <<>>)
         IN IF InvalidEvery(every) THEN fail("InvalidInterval")
            ELSE IF AlreadyRunning(reg, name) THEN fail("AlreadyRunning")
            ELSE LET s == NewSlot(pl) IN
                 [pool |-> [pl EXCEPT ![s] = periodic_worker(name, every, actions)],
                  tasks |-> Update(reg, [n \in {name} |-> s]),
                  outcome |-> "ok"]

\* start_repeating on the state <<pool, tasks>>: the new state and what the call returned
start_repeating_on(pl, reg, name) ==
    LET fail(e) == [pool |-> pl, tasks |-> reg, outcome |-> e] IN
    IF name \notin DOMAIN data THEN fail("NotFound")
    ELSE LET seq == data[name] IN
         IF IsList(seq) THEN fail("InvalidSequenceShape")
         ELSE LET every == EveryOf(seq)
                  actions == Get(seq.items, "actions", <<>>)
              IN IF InvalidEvery(every) THEN fail("InvalidInterval")
                 ELSE IF AlreadyRunning(reg, name) THEN fail("AlreadyRunning")
                 ELSE LET s == NewSlot(pl) IN
                      [pool |-> [pl EXCEPT ![s] = periodic_worker(name, every, actions)],
                       tasks |-> Update(reg, [n \in {name} |-> s]),
                       outcome |-> "ok"]

\* a call that creates a task needs a task object
CanStart(pl, reg, name) ==
    start_repeating_on([s \in Slots |-> Free], reg, name).outcome = "ok"
        => FreeSlots(pl) # {}

start_repeating(name) ==
    /\ Idle
    /\ CanStart(pool, tasks, name)
    /\ LET r == start_repeating_on(pool, tasks, name) IN
        /\ pool' = r.pool
        /\ tasks' = r.tasks
        /\ result' = Return("start_repeating", name, r.outcome)
    /\ out' = NoEvent
    /\ UNCHANGED <<host, dry_run, gating, focused, data, order, current>>

\* variant: the task is dropped from the map without being cancelled
Cancel_noop(tk) == tk

\* Task.cancel(): no effect on a finished task, else CancelledError at the task's await
Cancel(tk) == IF Live(tk) THEN [tk EXCEPT !.cancel = TRUE] ELSE tk

\* a finished task that nothing refers to is gone
Release(tk) == IF Live(tk) THEN tk ELSE Free

\* variant: stop(name) cancels every registered task
StopTargets_all(reg, name) == IF name \in DOMAIN reg THEN {reg[n] : n \in DOMAIN reg} ELSE {}

\* the tasks that stop(name) cancels
StopTargets(reg, name) == IF name \in DOMAIN reg THEN {reg[name]} ELSE {}

\* the names that stop(name) removes
StopRemoves(reg, name) == {name} \cap DOMAIN reg

stop(name) ==
    /\ Idle
    /\ pool' = [s \in Slots |-> IF s \in StopTargets(tasks, name)
                                THEN Release(Cancel(pool[s])) ELSE pool[s]]
    /\ tasks' = [n \in DOMAIN tasks \ StopRemoves(tasks, name) |-> tasks[n]]
    /\ result' = Return("stop", name, "ok")
    /\ out' = NoEvent
    /\ UNCHANGED <<host, dry_run, gating, focused, data, order, current>>

\* variant: stop_all cancels one task only
StopAllTargets_first(reg) ==
    IF DOMAIN reg = {} THEN {} ELSE {reg[CHOOSE n \in DOMAIN reg : TRUE]}

\* the tasks that stop_all cancels
StopAllTargets(reg) == {reg[n] : n \in DOMAIN reg}

\* the names that stop_all leaves in the map
StopAllKeeps(reg) == {}

\* stop_all on the state <<pool, tasks>>
stop_all_on(pl, reg) ==
    [pool |-> [s \in Slots |-> IF s \in StopAllTargets(reg)
                                THEN Release(Cancel(pl[s])) ELSE pl[s]],
     tasks |-> [n \in StopAllKeeps(reg) |-> reg[n]]]

stop_all ==
    /\ Idle
    /\ pool' = stop_all_on(pool, tasks).pool
    /\ tasks' = stop_all_on(pool, tasks).tasks
    /\ result' = Return("stop_all", "", "ok")
    /\ out' = NoEvent
    /\ UNCHANGED <<host, dry_run, gating, focused, data, order, current>>

\* isinstance(seq, dict) and "every" in seq
DeclaresEvery(seq) == seq.isdict /\ "every" \in DOMAIN seq.items

\* the loop of start_all_repeating from position k of data.items()
RECURSIVE start_all_from(_, _, _, _)

\* variant: the first start that fails ends the loop
start_all_from_abort(k, pl, reg, log) ==
    IF k > Len(order) THEN [pool |-> pl, tasks |-> reg, outcome |-> log]
    ELSE LET name == order[k] IN
         IF DeclaresEvery(data[name])
         THEN IF ~CanStart(pl, reg, name)
              THEN [pool |-> pl, tasks |-> reg, outcome |-> "no task object"]
              ELSE LET r == start_repeating_on(pl, reg, name) IN
                   IF r.outcome # "ok"
                   THEN [pool |-> pl, tasks |-> reg, outcome |-> Append(log, <<name, r.outcome>>)]
                   ELSE start_all_from(k + 1, r.pool, r.tasks, Append(log, <<name, r.outcome>>))
         ELSE start_all_from(k + 1, pl, reg, log)

start_all_from(k, pl, reg, log) ==
    IF k > Len(order) THEN [pool |-> pl, tasks |-> reg, outcome |-> log]
    ELSE LET name == order[k] IN
         IF DeclaresEvery(data[name])
         THEN IF ~CanStart(pl, reg, name)
              THEN [pool |-> pl, tasks |-> reg, outcome |-> "no task object"]
              ELSE LET r == start_repeating_on(pl, reg, name) IN
                   start_all_from(k + 1, r.pool, r.tasks, Append(log, <<name, r.outcome>>))
         ELSE start_all_from(k + 1, pl, reg, log)

start_all_repeating ==
    /\ Idle
    /\ LET r == start_all_from(1, pool, tasks, <<>>) IN
        /\ r.outcome # "no task object"
        /\ pool' = r.pool
        /\ tasks' = r.tasks
        /\ result' = Return("start_all_repeating", "", r.outcome)
    /\ out' = NoEvent
    /\ UNCHANGED <<host, dry_run, gating, focused, data, order, current>>

\* asyncio.create_task(runner.run_once(name)): the coroutine starts when the loop runs it
spawn_run_once(name) ==
    /\ Idle
    /\ FreeSlots(pool) # {}
    /\ pool' = [pool EXCEPT ![NewSlot(pool)] = run_once(name)]
    /\ result' = Return("create_task", name, "ok")
    /\ out' = NoEvent
    /\ UNCHANGED <<host, dry_run, gating, focused, data, order, tasks, current>>

(***************************************************************************)
(* Key and button names                                                    *)
(***************************************************************************)
Key(name) == [key |-> name]
KeyCode_from_char(ch) == [char |-> ch]
KeyCode_from_vk(vk) == [vk |-> vk]
Button(name) == [button |-> name]

\* the one-character key names of the catalog
SingleChars == {"a", "2"}

\* part of the alias table `simple` of parse_key, its num0..num9 and num-lock
\* entries in full
simple == [shift |-> Key("shift"), ctrl |-> Key("ctrl"), control |-> Key("ctrl"),
           space |-> Key("space"), f1 |-> Key("f1"),
           num0 |-> Key("num_lock"), num1 |-> Key("num_lock"), num2 |-> Key("num_lock"),
           num3 |-> Key("num_lock"), num4 |-> Key("num_lock"), num5 |-> Key("num_lock"),
           num6 |-> Key("num_lock"), num7 |-> Key("num_lock"), num8 |-> Key("num_lock"),
           num9 |-> Key("num_lock"),
           numlock |-> Key("num_lock"), num_lock |-> Key("num_lock")]

\* the table `numpad_keys` of parse_key
numpad_keys ==
    [numpad0 |-> KeyCode_from_vk(96), numpad1 |-> KeyCode_from_vk(97),
     numpad2 |-> KeyCode_from_vk(98), numpad3 |-> KeyCode_from_vk(99),
     numpad4 |-> KeyCode_from_vk(100), numpad5 |-> KeyCode_from_vk(101),
     numpad6 |-> KeyCode_from_vk(102), numpad7 |-> KeyCode_from_vk(103),
     numpad8 |-> KeyCode_from_vk(104), numpad9 |-> KeyCode_from_vk(105),
     num0 |-> KeyCode_from_vk(96), num1 |-> KeyCode_from_vk(97),
     num2 |-> KeyCode_from_vk(98), num3 |-> KeyCode_from_vk(99),
     num4 |-> KeyCode_from_vk(100), num5 |-> KeyCode_from_vk(101),
     num6 |-> KeyCode_from_vk(102), num7 |-> KeyCode_from_vk(103),
     num8 |-> KeyCode_from_vk(104), num9 |-> KeyCode_from_vk(105)]

\* parse_key for a lower-case name: the tables in the order the code tries them
parse_key(key_str) ==
    IF key_str \in DOMAIN simple THEN simple[key_str]
    ELSE IF key_str \in DOMAIN numpad_keys THEN numpad_keys[key_str]
    ELSE IF key_str \in SingleChars THEN KeyCode_from_char(key_str)
    ELSE key_str

parse_button(btn_str) ==
    IF btn_str \in {"left", "right", "middle"} THEN Button(btn_str) ELSE Button("left")

(***************************************************************************)
(* Tasks on the event loop                                                 *)
(***************************************************************************)
\* variant: CancelledError is swallowed everywhere but at the interval sleep
CancelPoints_interval == {"interval"}

\* the awaits at which a pending cancellation is raised in the task
CancelPoints == SleepPcs

Cancelling(tk) == tk.pc \in CancelPoints \cup {"start"} /\ tk.cancel

\* variant: the tasks go on after run_until_complete has returned
LoopRuns_always == TRUE

\* the event loop of the tasks is running: the caller's own loop, or the loop of
\* the worker thread between run_until_complete and its return
LoopRuns == host.thread \in {"direct", "polling", "stopping", "failing"}

\* the last iteration of a loop whose main coroutine has raised runs the
\* callbacks that are ready, the first steps of the new tasks, and no timer
LastIteration(pc) == host.thread = "failing" => pc = "start"

\* the loop may resume task t: its sleep is over and no CancelledError is pending
Wakeable(t, pc) ==
    LoopRuns /\ Idle /\ pool[t].pc = pc /\ ~Cancelling(pool[t]) /\ LastIteration(pc)

Running(t, pc) == LoopRuns /\ Settled /\ current = t /\ pool[t].pc = pc

\* variant: the end of one task cancels every other task of the loop
Terminate_all(t, endpc, outcome) ==
    /\ pool' = [s \in Slots |->
                   IF s = t
                   THEN IF Registered(tasks, t)
                        THEN [pool[t] EXCEPT !.pc = endpc, !.cancel = FALSE]
                        ELSE Free
                   ELSE IF Live(pool[s]) THEN [pool[s] EXCEPT !.cancel = TRUE] ELSE pool[s]]
    /\ current' = NoTask
    /\ result' = Return("task", pool[t].name, outcome)

\* the task ends; a task that nothing refers to any more is gone
Terminate(t, endpc, outcome) ==
    /\ pool' = [pool EXCEPT ![t] = IF Registered(tasks, t)
                                   THEN [@ EXCEPT !.pc = endpc, !.cancel = FALSE]
                                   ELSE Free]
    /\ current' = NoTask
    /\ result' = Return("task", pool[t].name, outcome)

\* the task goes on (holding the loop) or goes to sleep
Goto(t, tk, pc) ==
    /\ pool' = [pool EXCEPT ![t] = [tk EXCEPT !.pc = pc]]
    /\ current' = IF pc \in SleepPcs THEN NoTask ELSE t
    /\ result' = NoResult

\* variant: the loop does not advance
NextIndex_same(i) == i

\* the index of the action that follows action i of the list
NextIndex(i) == i + 1

\* execute_action has returned for the action in turn: the for loop goes on,
\* that of _run_actions_once or, for an action inside a repeat (tk.j > 0), that
\* of _execute_repeat
Finished(tk) ==
    IF tk.j = 0
    THEN [tk EXCEPT !.i = NextIndex(tk.i), !.c = 0, !.active = tk.active \ {tk.i}]
    ELSE [tk EXCEPT !.j = tk.j + 1, !.c = 0]

\* the for loop that execute_action returns to
Back(tk) == IF tk.j = 0 THEN "for" ELSE "repeat_for"

\* the step emits no input event
Quiet == out' = NoEvent

\* kb.press, kb.release, ms.press, ms.release
Emit(t, dev, kind, what) == out' = Event(t, dev, kind, what)

Frame == UNCHANGED <<host, dry_run, gating, focused, data, order, tasks>>

\* CancelledError is raised at the await of a cancelled task
deliver_cancel(t) ==
    /\ LoopRuns
    /\ Idle
    /\ Cancelling(pool[t])
    \* _periodic_worker returns on CancelledError; a coroutine that never ran has no handler
    /\ IF pool[t].kind = "periodic" /\ pool[t].pc # "start"
       THEN Terminate(t, "returned", "returned")
       ELSE Terminate(t, "cancelled", "cancelled")
    /\ Quiet /\ Frame

\* first step of a task
wake_start(t) ==
    /\ Wakeable(t, "start")
    /\ Goto(t, pool[t], IF pool[t].kind = "periodic" THEN "loop" ELSE "resolve")
    /\ Quiet /\ Frame

\* _periodic_worker: `while True` and the test of line 91
worker_loop(t) ==
    /\ Running(t, "loop")
    /\ IF dry_run \/ is_target_window_active
       THEN Goto(t, [pool[t] EXCEPT !.i = 1, !.begun = <<>>, !.active = {}, !.ran = <<>>],
                 "for")
       ELSE Goto(t, pool[t], "loop_while")
    /\ Quiet /\ Frame

\* _periodic_worker: the gate loop of lines 95-96, then the interval sleep of line 100
worker_while(t) ==
    /\ Running(t, "loop_while")
    /\ IF ~is_target_window_active
       THEN Goto(t, pool[t], "worker_poll")
       ELSE Goto(t, pool[t], "interval")
    /\ Quiet /\ Frame

wake_worker_poll(t) ==
    /\ Wakeable(t, "worker_poll")
    /\ Goto(t, pool[t], "loop_while")
    /\ Quiet /\ Frame

\* variant: every iteration reads the sequence of its name from the store again
wake_interval_reload(t) ==
    /\ Wakeable(t, "interval")
    /\ LET tk == pool[t]
           seq == data[tk.name]
       IN IF tk.name \in DOMAIN data /\ seq.isdict
          THEN Goto(t, [tk EXCEPT !.actions = Get(seq.items, "actions", <<>>),
                                  !.every = Get(seq.items, "every", 0)], "loop")
          ELSE Goto(t, tk, "loop")
    /\ Quiet /\ Frame

\* _periodic_worker: the interval sleep of line 100 is over
wake_interval(t) ==
    /\ Wakeable(t, "interval")
    /\ Goto(t, pool[t], "loop")
    /\ Quiet /\ Frame

\* variant: run_once of an object form that repeats runs nothing
ResolvedActions_oneshot(seq) ==
    IF IsList(seq) THEN seq.items
    ELSE IF EveryOf(seq) > 0 THEN <<>> ELSE Get(seq.items, "actions", <<>>)

\* run_once: the list itself, or seq.get("actions", [])
ResolvedActions(seq) ==
    IF IsList(seq) THEN seq.items ELSE Get(seq.items, "actions", <<>>)

\* variant: an unknown name is an empty sequence
resolve_lenient(t) ==
    /\ Running(t, "resolve")
    /\ LET name == pool[t].name IN
       IF name \notin DOMAIN data
       THEN Goto(t, [pool[t] EXCEPT !.actions = <<>>, !.i = 1], "for")
       ELSE Goto(t, [pool[t] EXCEPT !.actions = ResolvedActions(data[name]), !.i = 1], "for")
    /\ Quiet /\ Frame

\* run_once: get_sequence and the choice of the action list
resolve(t) ==
    /\ Running(t, "resolve")
    /\ LET name == pool[t].name IN
       IF name \notin DOMAIN data
       THEN Terminate(t, "failed", "NotFound")
       ELSE Goto(t, [pool[t] EXCEPT !.actions = ResolvedActions(data[name]), !.i = 1], "for")
    /\ Quiet /\ Frame

\* variant: a worker that has run its list starts the next round at once
rao_for_nosleep(t) ==
    /\ Running(t, "for")
    /\ LET tk == pool[t] IN
       IF tk.i > Len(tk.actions)
       THEN IF tk.kind = "periodic"
            THEN Goto(t, tk, "loop")
            ELSE Terminate(t, "returned", "done")
       ELSE IF ~dry_run /\ ~is_target_window_active
            THEN Goto(t, tk, "rao_while")
            ELSE Goto(t, tk, "exec")
    /\ Quiet /\ Frame

\* _run_actions_once: the for loop and the gate test of line 75
rao_for(t) ==
    /\ Running(t, "for")
    /\ LET tk == pool[t] IN
       IF tk.i > Len(tk.actions)
       THEN IF tk.kind = "periodic"
            THEN Goto(t, tk, "interval")
            ELSE Terminate(t, "returned", "done")
       ELSE IF ~dry_run /\ ~is_target_window_active
            THEN Goto(t, tk, "rao_while")
            ELSE Goto(t, tk, "exec")
    /\ Quiet /\ Frame

\* variant: when the focus returns the run goes on with the action after the one in turn
rao_while_skip(t) ==
    /\ Running(t, "rao_while")
    /\ IF ~is_target_window_active
       THEN Goto(t, pool[t], "rao_poll")
       ELSE Goto(t, Finished(pool[t]), "for")
    /\ Quiet /\ Frame

\* _run_actions_once: the gate loop of lines 79-80
rao_while(t) ==
    /\ Running(t, "rao_while")
    /\ IF ~is_target_window_active
       THEN Goto(t, pool[t], "rao_poll")
       ELSE Goto(t, pool[t], "exec")
    /\ Quiet /\ Frame

wake_rao_poll(t) ==
    /\ Wakeable(t, "rao_poll")
    /\ Goto(t, pool[t], "rao_while")
    /\ Quiet /\ Frame

(***************************************************************************)
(* ActionExecutor                                                          *)
(***************************************************************************)
None == "None"

\* the values random.randint(1, 100) is drawn from: the ends of the range and
\* the two sides of the threshold of a chance of 50
Draws == {1, 50, 51, 100}

\* _check_chance, the test of line 48 is made with a random draw
UsesDraw(action) ==
    "chance" \in DOMAIN action /\ action.chance > 0 /\ action.chance < 100

\* variant: the draw has to be below the chance
check_chance_strict(action, draw) ==
    IF "chance" \notin DOMAIN action THEN TRUE
    ELSE IF action.chance <= 0 THEN FALSE
    ELSE IF action.chance >= 100 THEN TRUE
    ELSE draw < action.chance

\* _check_chance, for the draw that random.randint would return
check_chance(action, draw) ==
    IF "chance" \notin DOMAIN action THEN TRUE
    ELSE IF action.chance <= 0 THEN FALSE
    ELSE IF action.chance >= 100 THEN TRUE
    ELSE draw <= action.chance

\* the action in turn: of the list, or of the inner list of its repeat action
Act(tk) == IF tk.j = 0 THEN tk.actions[tk.i] ELSE tk.actions[tk.i].actions[tk.j]

\* _execute_wait and _execute_superwait
execute_wait(t, tk) ==
    /\ IF dry_run THEN Goto(t, Finished(tk), Back(tk)) ELSE Goto(t, tk, "wait")
    /\ Quiet

\* variant: the dry run presses and releases as well
execute_key_live(t, tk) ==
    LET action_type == Get(Act(tk), "action", "press")
        key == parse_key(Get(Act(tk), "key", None))
    IN IF action_type \in {"press", "hold"}
       THEN Emit(t, "kb", "press", key) /\ Goto(t, tk, "key_hold")
       ELSE IF action_type = "down"
            THEN Emit(t, "kb", "press", key) /\ Goto(t, Finished(tk), Back(tk))
       ELSE IF action_type = "up"
            THEN Emit(t, "kb", "release", key) /\ Goto(t, Finished(tk), Back(tk))
       ELSE Terminate(t, "failed", "UnknownSubAction") /\ Quiet

\* _execute_key
execute_key(t, tk) ==
    LET action_type == Get(Act(tk), "action", "press")
        key == parse_key(Get(Act(tk), "key", None))
    IN IF dry_run THEN Goto(t, Finished(tk), Back(tk)) /\ Quiet
       ELSE IF action_type \in {"press", "hold"}
            THEN Emit(t, "kb", "press", key) /\ Goto(t, tk, "key_hold")
       ELSE IF action_type = "down"
            THEN Emit(t, "kb", "press", key) /\ Goto(t, Finished(tk), Back(tk))
       ELSE IF action_type = "up"
            THEN Emit(t, "kb", "release", key) /\ Goto(t, Finished(tk), Back(tk))
       ELSE Terminate(t, "failed", "UnknownSubAction") /\ Quiet

\* the sleeps of one _smooth_move_mouse, which sets the position once more than
\* it sleeps (the code makes at least 10)
MoveSteps == 2

\* the action gives both coordinates
HasTarget(action) == "x" \in DOMAIN action /\ "y" \in DOMAIN action

\* _execute_mouse, step 3: the dispatch on the sub-action
mouse_verb(t, tk) ==
    LET action_type == Get(Act(tk), "action", "click")
        btn == parse_button(Get(Act(tk), "button", "left"))
        clicks == Get(Act(tk), "clicks", 1)
    IN IF action_type = "click"
       THEN IF clicks >= 1
            THEN Emit(t, "ms", "press", btn) /\ Goto(t, [tk EXCEPT !.c = 1], "mouse_hold")
            ELSE Goto(t, Finished(tk), Back(tk)) /\ Quiet
       ELSE IF action_type = "hold"
            THEN Emit(t, "ms", "press", btn) /\ Goto(t, tk, "mouse_hold")
       ELSE IF action_type = "down"
            THEN Emit(t, "ms", "press", btn) /\ Goto(t, Finished(tk), Back(tk))
       ELSE IF action_type = "up"
            THEN Emit(t, "ms", "release", btn) /\ Goto(t, Finished(tk), Back(tk))
       ELSE Terminate(t, "failed", "UnknownSubAction") /\ Quiet

\* _execute_mouse up to its first await.  With coordinates the cursor is moved
\* first, unless it is at the target already (the target has a random offset):
\* the first ms.position of _smooth_move_mouse.
execute_mouse(t, tk) ==
    IF dry_run THEN Goto(t, Finished(tk), Back(tk)) /\ Quiet
    ELSE IF HasTarget(Act(tk))
         THEN \E moved \in BOOLEAN :
                 IF moved
                 THEN /\ Emit(t, "ms", "move", "position")
                      /\ Goto(t, [tk EXCEPT !.c = 1], "mouse_move")
                 ELSE mouse_verb(t, tk)
         ELSE mouse_verb(t, tk)

\* variant: a repeat never has a count
HasCount_never(action) == FALSE

\* _execute_repeat: count is not None
HasCount(action) == "count" \in DOMAIN action

\* the repetitions of the action are counted: tk.r is the `i` of
\* _execute_repeat and tk.w the interval sleeps it has completed, both left
\* at 0 for a repeat that never ends (no count, every > 0)
Counted(action) == HasCount(action) \/ Get(action, "every", 0) <= 0

\* _execute_repeat, lines 256-260, entered from execute_action
execute_repeat(t, tk) ==
    Goto(t, [tk EXCEPT !.r = 0, !.w = 0], "repeat_while") /\ Quiet

\* _execute_repeat, line 261: while runs is None or i < runs
repeat_while(t) ==
    /\ Running(t, "repeat_while")
    /\ LET tk == pool[t]
           a == tk.actions[tk.i]
       IN IF ~HasCount(a) \/ tk.r < a.count
          THEN Goto(t, [tk EXCEPT !.j = 1], "repeat_for")
          ELSE Goto(t, Finished([tk EXCEPT !.r = 0, !.w = 0]), "for")
    /\ Quiet /\ Frame

\* variant: a skipped action still sleeps before the run goes on
skip_action_delayed(t, tk) ==
    Goto(t, tk, "wait") /\ Quiet

\* execute_action, lines 53-57: the chance gate has failed, the call returns
skip_action(t, tk) ==
    Goto(t, Finished(tk), Back(tk)) /\ Quiet

\* variant: an unknown action type is logged and passed over in every mode
unknown_type_logged(t, tk) ==
    Goto(t, Finished(tk), Back(tk)) /\ Quiet

\* execute_action, lines 71-76: an action type that is none of the known ones
unknown_type(t, tk) ==
    IF dry_run
    THEN Goto(t, Finished(tk), Back(tk)) /\ Quiet
    ELSE Terminate(t, "failed", "UnsupportedAction") /\ Quiet

\* execute_action, up to its first await.  The executing branch computes
\* pre_delay and delay_random but sleeps on neither.  tk.draw is the draw made
\* for the action, 0 when _check_chance made none; tk.ran lists the actions
\* of the run that passed the chance gate.
execute_action(t) ==
    /\ Running(t, "exec")
    /\ \E draw \in Draws :
        LET tk == [pool[t] EXCEPT !.begun = Append(@, pool[t].i),
                                  !.active = @ \cup {pool[t].i},
                                  !.draw = IF UsesDraw(Act(pool[t])) THEN draw ELSE 0]
            go == [tk EXCEPT !.ran = Append(@, tk.i)]
            atype == Get(Act(tk), "type", "key")
        IN IF ~check_chance(Act(tk), draw)
           THEN skip_action(t, tk)
           ELSE IF atype \in {"wait", "superwait"} THEN execute_wait(t, go)
           ELSE IF atype = "key" THEN execute_key(t, go)
           ELSE IF atype = "mouse" THEN execute_mouse(t, go)
           ELSE IF atype = "repeat" THEN execute_repeat(t, go)
           ELSE unknown_type(t, go)
    /\ Frame

\* execute_action called by _execute_repeat for the inner action in turn, with
\* no gate test before it.  The inner lists of the catalog hold no repeat.
execute_inner(t) ==
    /\ Running(t, "inner_exec")
    /\ \E draw \in Draws :
        LET tk == [pool[t] EXCEPT !.draw = IF UsesDraw(Act(pool[t])) THEN draw ELSE 0]
            atype == Get(Act(tk), "type", "key")
        IN IF ~check_chance(Act(tk), draw)
           THEN skip_action(t, tk)
           ELSE IF atype \in {"wait", "superwait"} THEN execute_wait(t, tk)
           ELSE IF atype = "key" THEN execute_key(t, tk)
           ELSE IF atype = "mouse" THEN execute_mouse(t, tk)
           ELSE unknown_type(t, tk)
    /\ Frame

\* _execute_repeat, lines 262-268: the for loop over the inner list; at its
\* end i += 1, then the break or the interval sleep
repeat_for(t) ==
    /\ Running(t, "repeat_for")
    /\ LET tk == pool[t]
           a == tk.actions[tk.i]
           done == [tk EXCEPT !.j = 0, !.r = IF Counted(a) THEN tk.r + 1 ELSE tk.r]
       IN IF tk.j <= Len(Get(a, "actions", <<>>))
          THEN Goto(t, tk, "inner_exec")
          ELSE IF Get(a, "every", 0) <= 0
               THEN Goto(t, Finished([done EXCEPT !.r = 0, !.w = 0]), "for")
               ELSE Goto(t, done, "repeat_sleep")
    /\ Quiet /\ Frame

\* _execute_repeat: the interval sleep is over
wake_repeat_sleep(t) ==
    /\ Wakeable(t, "repeat_sleep")
    /\ LET tk == pool[t] IN
       Goto(t, [tk EXCEPT !.w = IF Counted(tk.actions[tk.i]) THEN tk.w + 1 ELSE tk.w],
            "repeat_while")
    /\ Quiet /\ Frame

\* _smooth_move_mouse after a sleep between two steps: the next ms.position,
\* and after the last one the sleep of _execute_mouse before the click
wake_mouse_move(t) ==
    /\ Wakeable(t, "mouse_move")
    /\ LET tk == pool[t] IN
        /\ Emit(t, "ms", "move", "position")
        /\ IF tk.c < MoveSteps
           THEN Goto(t, [tk EXCEPT !.c = tk.c + 1], "mouse_move")
           ELSE Goto(t, [tk EXCEPT !.c = 0], "mouse_settle")
    /\ Frame

\* _execute_mouse after the sleep that follows the move: the sub-action
wake_mouse_settle(t) ==
    /\ Wakeable(t, "mouse_settle")
    /\ mouse_verb(t, pool[t])
    /\ Frame

\* the sleep of a wait action is over
wake_wait(t) ==
    /\ Wakeable(t, "wait")
    /\ Goto(t, Finished(pool[t]), Back(pool[t]))
    /\ Quiet /\ Frame

\* variant: the key stays down after the hold
wake_key_hold_silent(t) ==
    /\ Wakeable(t, "key_hold")
    /\ Goto(t, Finished(pool[t]), Back(pool[t]))
    /\ Quiet /\ Frame

\* _execute_key after the hold sleep: kb.release
wake_key_hold(t) ==
    /\ Wakeable(t, "key_hold")
    /\ Emit(t, "kb", "release", parse_key(Get(Act(pool[t]), "key", None)))
    /\ Goto(t, Finished(pool[t]), Back(pool[t]))
    /\ Frame

\* _execute_mouse after the hold sleep: ms.release, then the wait between two clicks
wake_mouse_hold(t) ==
    /\ Wakeable(t, "mouse_hold")
    /\ LET tk == pool[t] IN
        /\ Emit(t, "ms", "release", parse_button(Get(Act(tk), "button", "left")))
        /\ IF Get(Act(tk), "action", "click") = "click" /\ tk.c < Get(Act(tk), "clicks", 1)
           THEN Goto(t, tk, "mouse_inter")
           ELSE Goto(t, Finished(tk), Back(tk))
    /\ Frame

\* _execute_mouse after the wait between two clicks: the next ms.press
wake_mouse_inter(t) ==
    /\ Wakeable(t, "mouse_inter")
    /\ LET tk == pool[t] IN
        /\ Emit(t, "ms", "press", parse_button(Get(Act(tk), "button", "left")))
        /\ Goto(t, [tk EXCEPT !.c = tk.c + 1], "mouse_hold")
    /\ Frame

(***************************************************************************)
(* Environment                                                             *)
(***************************************************************************)
\* the OS has taken the event, the caller has taken the result
settle ==
    /\ ~Settled
    /\ out' = NoEvent
    /\ result' = NoResult
    /\ UNCHANGED <<host, dry_run, gating, focused, data, order, tasks, pool, current>>

\* the user gives the focus to another window, or back
focus_change ==
    /\ gating
    /\ Settled
    /\ focused' = ~focused
    /\ out' = NoEvent
    /\ result' = NoResult
    /\ UNCHANGED <<host, dry_run, gating, data, order, tasks, pool, current>>

(***************************************************************************)
(* BackgroundRunner and SettingsForm (src/formauto)                        *)
(*                                                                         *)
(* The form runs on the host (Tk) thread; the BackgroundRunner owns a      *)
(* worker thread with its own event loop and its own SequenceRunner.       *)
(* host.thread is the position of the worker thread, host.pc the position  *)
(* of the host thread.  The form starts a new runner only when the worker  *)
(* thread of the previous one has ended.                                   *)
(***************************************************************************)
\* the positions of a worker thread that is_alive()
Alive == {"created", "loop", "setup", "polling", "stopping", "failing"}

\* the runner is driven by the loop of its caller, there is no form
Direct == [thread |-> "direct"]

\* SettingsForm.__init__
\* host.hk is the position of the key listener thread inside toggle_running,
\* host.orphans the runners with a live thread that _bg_runner has lost
Form == [thread |-> "none", stop_event |-> FALSE, exc |-> None,
         bg_runner |-> FALSE, is_running |-> FALSE, window |-> "open",
         status |-> "", pc |-> "idle", json_path |-> None, selected |-> <<>>,
         hk |-> "idle", orphans |-> 0]

\* the listbox selections
Selections == {<<"p">>, <<"q">>, <<"p", "q">>}

HostFrame == UNCHANGED <<dry_run, gating, focused, data, order, tasks, pool, current>>

\* a step of the host thread
HostStep == Settled /\ host.window = "open" /\ out' = NoEvent /\ result' = NoResult

\* toggle_running, starting branch: BackgroundRunner(...).start()
toggle_running_start(doc, selected) ==
    /\ HostStep
    /\ host.pc = "idle"
    /\ ~host.is_running
    /\ host.thread \notin Alive
    /\ host' = [host EXCEPT !.bg_runner = TRUE, !.stop_event = FALSE, !.exc = None,
                             !.thread = "created", !.is_running = TRUE,
                             !.status = "Auto mode started", !.json_path = doc,
                             !.selected = selected]
    \* the runner, the loop and the tasks of the previous run are dropped
    /\ data' = EmptyMap /\ order' = <<>> /\ tasks' = EmptyMap
    /\ pool' = [s \in Slots |-> Free]
    /\ UNCHANGED <<dry_run, gating, focused, current>>

\* toggle_running, stopping branch up to Thread.join: BackgroundRunner.stop
toggle_running_stop ==
    /\ HostStep
    /\ host.pc = "idle"
    /\ host.is_running
    /\ IF host.bg_runner
       THEN host' = [host EXCEPT !.stop_event = TRUE, !.pc = "join"]
       ELSE host' = [host EXCEPT !.is_running = FALSE, !.status = "Auto mode stopped"]
    /\ HostFrame

\* Thread.join(timeout) returns, the thread ended or not; the rest of toggle_running
join_returns ==
    /\ HostStep
    /\ host.pc = "join"
    /\ host' = [host EXCEPT !.pc = "idle", !.bg_runner = FALSE, !.is_running = FALSE,
                             !.status = IF host.exc # None
                                        THEN "Runner stopped with error"
                                        ELSE "Auto mode stopped"]
    /\ HostFrame

\* _poll_status: the form notices a runner that failed
poll_status ==
    /\ HostStep
    /\ host.pc = "idle"
    /\ host.bg_runner /\ host.thread \notin Alive /\ host.exc # None
    /\ host' = [host EXCEPT !.bg_runner = FALSE, !.is_running = FALSE,
                             !.status = "Background runner failed"]
    /\ HostFrame

\* _on_close: settings saved, key listener stopped, windows destroyed; the
\* main loop returns and the process exits, taking the daemon thread with it
on_close ==
    /\ HostStep
    /\ host.pc = "idle"
    /\ host' = [host EXCEPT !.window = "destroyed",
                             !.thread = IF host.thread \in Alive THEN "killed" ELSE @]
    /\ HostFrame

\* the runners that may be lost with their threads alive
MaxOrphans == 1

\* GlobalKeyListener._on_press calls toggle_running on the listener thread:
\* the test of is_running at its head
hotkey_press ==
    /\ HostStep
    /\ host.hk = "idle"
    /\ host' = [host EXCEPT !.hk = IF host.is_running THEN "stop" ELSE "start"]
    /\ HostFrame

\* toggle_running on the listener thread, starting branch, lines 675-703: a
\* new BackgroundRunner is assigned to _bg_runner and started, whatever
\* _bg_runner held
hotkey_start(doc, selected) ==
    /\ HostStep
    /\ host.hk = "start"
    /\ host.thread \in Alive => host.orphans < MaxOrphans
    /\ host' = [host EXCEPT !.bg_runner = TRUE, !.stop_event = FALSE, !.exc = None,
                             !.thread = "created", !.is_running = TRUE,
                             !.status = "Auto mode started", !.json_path = doc,
                             !.selected = selected, !.hk = "idle",
                             !.orphans = IF host.thread \in Alive THEN @ + 1 ELSE @]
    /\ data' = EmptyMap /\ order' = <<>> /\ tasks' = EmptyMap
    /\ pool' = [s \in Slots |-> Free]
    /\ UNCHANGED <<dry_run, gating, focused, current>>

\* toggle_running on the listener thread, stopping branch up to Thread.join
hotkey_stop ==
    /\ HostStep
    /\ host.hk = "stop"
    /\ IF host.bg_runner
       THEN host' = [host EXCEPT !.stop_event = TRUE, !.hk = "join"]
       ELSE host' = [host EXCEPT !.is_running = FALSE, !.status = "Auto mode stopped",
                                 !.hk = "idle"]
    /\ HostFrame

\* Thread.join returns on the listener thread; the rest of toggle_running
hotkey_join ==
    /\ HostStep
    /\ host.hk = "join"
    /\ host' = [host EXCEPT !.hk = "idle", !.bg_runner = FALSE, !.is_running = FALSE,
                             !.status = IF host.exc # None
                                        THEN "Runner stopped with error"
                                        ELSE "Auto mode stopped"]
    /\ HostFrame

\* the thread of a lost runner ends by itself: its start-up has failed
orphan_ends ==
    /\ HostStep
    /\ host.orphans > 0
    /\ host' = [host EXCEPT !.orphans = @ - 1]
    /\ HostFrame

\* the lists of names a caller may give to BackgroundRunner: the constructor
\* takes any list, also one that names a sequence twice
SelectedLists == Selections \cup {<<"q", "q">>}

\* BackgroundRunner(json_path, selected_sequences).start(), by any caller
bg_start(doc, selected) ==
    /\ HostStep
    /\ host.thread \notin Alive
    /\ host' = [host EXCEPT !.stop_event = FALSE, !.exc = None, !.thread = "created",
                             !.json_path = doc, !.selected = selected]
    /\ data' = EmptyMap /\ order' = <<>> /\ tasks' = EmptyMap
    /\ pool' = [s \in Slots |-> Free]
    /\ UNCHANGED <<dry_run, gating, focused, current>>

\* BackgroundRunner.stop: the stop event is set
bg_stop ==
    /\ HostStep
    /\ host.thread \in Alive
    /\ ~host.stop_event
    /\ host' = [host EXCEPT !.stop_event = TRUE]
    /\ HostFrame

\* a step of the worker thread outside the tasks
WorkerStep == Idle /\ out' = NoEvent /\ result' = NoResult

\* _thread_main: the loop object is created
thread_main ==
    /\ WorkerStep
    /\ host.thread = "created"
    /\ host' = [host EXCEPT !.thread = "loop"]
    /\ HostFrame

\* _main: SequenceRunner(), load_file; an error ends _main and the thread
main_load ==
    /\ WorkerStep
    /\ host.thread = "loop"
    /\ LET doc == host.json_path IN
       IF doc.isdict
       THEN /\ data' = Update(EmptyMap, Payload(doc).items)
            /\ order' = AppendNew(<<>>, Payload(doc).keys)
            /\ host' = [host EXCEPT !.thread = "setup"]
       ELSE /\ host' = [host EXCEPT !.thread = "ended", !.exc = "UnsupportedFormat"]
            /\ UNCHANGED <<data, order>>
    /\ UNCHANGED <<dry_run, gating, focused, tasks, pool, current>>

\* _main: the for loop over selected_sequences from position k; an error of
\* start_repeating leaves the loop and _main, past the try of the poll loop
RECURSIVE main_for(_, _, _)
main_for(k, pl, reg) ==
    IF k > Len(host.selected) THEN [pool |-> pl, tasks |-> reg, exc |-> None]
    ELSE LET name == host.selected[k] IN
         IF name \in DOMAIN data /\ data[name].isdict /\ EveryOf(data[name]) > 0
         THEN LET r == start_repeating_on(pl, reg, name) IN
              IF r.outcome # "ok"
              THEN [pool |-> pl, tasks |-> reg, exc |-> r.outcome]
              ELSE main_for(k + 1, r.pool, r.tasks)
         ELSE main_for(k + 1, [pl EXCEPT ![NewSlot(pl)] = run_once(name)], reg)

\* _main: the sequences are started; the first test of the stop event
main_start ==
    /\ WorkerStep
    /\ host.thread = "setup"
    /\ LET r == main_for(1, pool, tasks) IN
       IF r.exc # None
       THEN /\ pool' = r.pool
            /\ tasks' = r.tasks
            /\ host' = [host EXCEPT !.thread = "failing"]
       ELSE IF host.stop_event
       THEN /\ pool' = stop_all_on(r.pool, r.tasks).pool
            /\ tasks' = stop_all_on(r.pool, r.tasks).tasks
            /\ host' = [host EXCEPT !.thread = "stopping"]
       ELSE /\ pool' = r.pool
            /\ tasks' = r.tasks
            /\ host' = [host EXCEPT !.thread = "polling"]
    /\ UNCHANGED <<dry_run, gating, focused, data, order, current>>

\* _main wakes from sleep(0.5) and finds the stop event set: stop_all, return
main_poll ==
    /\ WorkerStep
    /\ host.thread = "polling"
    /\ host.stop_event
    /\ pool' = stop_all_on(pool, tasks).pool
    /\ tasks' = stop_all_on(pool, tasks).tasks
    /\ host' = [host EXCEPT !.thread = "stopping"]
    /\ UNCHANGED <<dry_run, gating, focused, data, order, current>>

\* run_until_complete returns or raises what _main raised (_exc records
\* it), the loop is closed, the thread ends
loop_stop ==
    /\ WorkerStep
    /\ host.thread \in {"stopping", "failing"}
    /\ host.thread = "failing" => \A s \in Slots : pool[s].pc # "start"
    /\ host' = [host EXCEPT !.thread = "ended",
                             !.exc = IF host.thread = "failing" THEN "AlreadyRunning" ELSE @]
    /\ HostFrame

(***************************************************************************)
(* Specification                                                           *)
(***************************************************************************)
Init ==
    /\ dry_run \in BOOLEAN
    /\ gating \in BOOLEAN
    /\ dry_run => ~gating
    /\ focused = TRUE
    /\ data = EmptyMap
    /\ order = <<>>
    /\ tasks = EmptyMap
    /\ pool = [s \in Slots |-> Free]
    /\ Idle
    /\ out = NoEvent
    /\ result = NoResult
    /\ host = Direct

\* The steps of the runner driven directly.  The sleeps of a cursor move and
\* between the clicks of a multiple click are steps of ExecNext: no list of
\* Docs reaches them in executing mode.
Next ==
    \/ \E doc \in Docs : load_file(doc)
    \/ \E name \in Names : start_repeating(name)
    \/ \E name \in Names : stop(name)
    \/ stop_all
    \/ start_all_repeating
    \/ \E name \in Names : spawn_run_once(name)
    \/ \E t \in Slots : deliver_cancel(t)
    \/ \E t \in Slots : wake_start(t)
    \/ \E t \in Slots : worker_loop(t)
    \/ \E t \in Slots : worker_while(t)
    \/ \E t \in Slots : wake_worker_poll(t)
    \/ \E t \in Slots : wake_interval(t)
    \/ \E t \in Slots : resolve(t)
    \/ \E t \in Slots : rao_for(t)
    \/ \E t \in Slots : rao_while(t)
    \/ \E t \in Slots : wake_rao_poll(t)
    \/ \E t \in Slots : execute_action(t)
    \/ \E t \in Slots : wake_wait(t)
    \/ \E t \in Slots : wake_key_hold(t)
    \/ \E t \in Slots : wake_mouse_hold(t)
    \/ settle
    \/ focus_change

Spec == Init /\ [][Next]_vars

(***************************************************************************)
(* The executor under run_once_sync: every call runs one task on a loop of *)
(* its own and blocks its caller till the task has ended, so that the      *)
(* action lists can be rich without tasks to interleave.                   *)
(***************************************************************************)
Never == [type |-> "key", action |-> "down", key |-> "num5", chance |-> 0, delay |-> 1]
Minus == [type |-> "mouse", action |-> "click", button |-> "left", x |-> 10, y |-> 20,
          chance |-> -5]
Half == [type |-> "key", action |-> "press", key |-> "numpad5", chance |-> 50, delay |-> 1]
Full == [type |-> "key", action |-> "up", key |-> "num5", chance |-> 100]
Over == [type |-> "wait", seconds |-> 1, chance |-> 150]
MoveClicks == [type |-> "mouse", action |-> "click", button |-> "right", clicks |-> 2,
               x |-> 10, y |-> 20]
NumDown == [type |-> "key", action |-> "down", key |-> "num5"]
HalfHold == [type |-> "mouse", action |-> "hold", button |-> "left", chance |-> 50]

ExecDocA == File("xa.json",
                 JDoc(<<"p">>, [p |-> JList(<<Never, Minus, Half, Full, Over, MoveClicks>>)]))
ExecDocB == File("xb.json",
                 JDoc(<<"q">>, [q |-> JDict([actions |-> <<NumDown, Bogus, HalfHold>>])]))

\* the key names "num0" .. "num9", each in a key-down action
NumNames == <<"num0", "num1", "num2", "num3", "num4", "num5", "num6", "num7", "num8", "num9">>
NumDowns == [k \in 1..Len(NumNames) |-> [type |-> "key", action |-> "down", key |-> NumNames[k]]]
ExecDocC == File("xc.json", JDoc(<<"p">>, [p |-> JList(NumDowns)]))

\* repeat actions: counted and timed, counted and untimed (count 0 and count
\* 2), uncounted and timed (endless), and the verbs no branch knows
Rep2 == [type |-> "repeat", count |-> 2, every |-> 3, actions |-> <<NumDown, Full>>]
RepZero == [type |-> "repeat", count |-> 0, every |-> 0, actions |-> <<NumDown>>]
RepOnce == [type |-> "repeat", count |-> 2, every |-> 0, actions |-> <<Full>>]
RepEnd == [type |-> "repeat", every |-> 3, actions |-> <<NumDown>>]
BadMouse == [type |-> "mouse", action |-> "drag", button |-> "left", x |-> 10, y |-> 20]
BadKey == [type |-> "key", action |-> "tap", key |-> "a"]

ExecDocD == File("xd.json",
                 JDoc(<<"p", "q">>, [p |-> JList(<<Rep2, Wait1>>),
                                     q |-> JDict([actions |-> <<RepZero, RepOnce, BadMouse>>])]))
ExecDocE == File("xe.json",
                 JDoc(<<"p", "q">>, [p |-> JList(<<RepEnd, Wait1>>),
                                     q |-> JList(<<BadKey>>)]))

ExecDocs == {ExecDocA, ExecDocB, ExecDocC, ExecDocD, ExecDocE}

\* the caller of run_once_sync is not inside asyncio.run
NoLoop == \A s \in Slots : pool[s] = Free

\* run_once_sync: asyncio.run(self.run_once(name))
run_once_sync(name) ==
    /\ Idle
    /\ NoLoop
    /\ pool' = [pool EXCEPT ![NewSlot(pool)] = run_once(name)]
    /\ result' = NoResult
    /\ out' = NoEvent
    /\ UNCHANGED <<host, dry_run, gating, focused, data, order, tasks, current>>

ExecInit == Init

ExecNext ==
    \/ \E doc \in ExecDocs : NoLoop /\ load_file(doc)
    \/ \E name \in Names : run_once_sync(name)
    \/ \E t \in Slots : wake_start(t)
    \/ \E t \in Slots : resolve(t)
    \/ \E t \in Slots : rao_for(t)
    \/ \E t \in Slots : rao_while(t)
    \/ \E t \in Slots : wake_rao_poll(t)
    \/ \E t \in Slots : execute_action(t)
    \/ \E t \in Slots : repeat_while(t)
    \/ \E t \in Slots : repeat_for(t)
    \/ \E t \in Slots : execute_inner(t)
    \/ \E t \in Slots : wake_repeat_sleep(t)
    \/ \E t \in Slots : wake_wait(t)
    \/ \E t \in Slots : wake_key_hold(t)
    \/ \E t \in Slots : wake_mouse_move(t)
    \/ \E t \in Slots : wake_mouse_settle(t)
    \/ \E t \in Slots : wake_mouse_hold(t)
    \/ \E t \in Slots : wake_mouse_inter(t)
    \/ settle
    \/ focus_change

ExecSpec == ExecInit /\ [][ExecNext]_vars

\* the steps of the task in slot t under run_once_sync
exec_runs(t) ==
    \/ wake_start(t) \/ resolve(t) \/ rao_for(t) \/ rao_while(t) \/ wake_rao_poll(t)
    \/ execute_action(t) \/ repeat_while(t) \/ repeat_for(t) \/ execute_inner(t)
    \/ wake_repeat_sleep(t) \/ wake_wait(t) \/ wake_key_hold(t) \/ wake_mouse_move(t)
    \/ wake_mouse_settle(t) \/ wake_mouse_hold(t) \/ wake_mouse_inter(t)

\* the gate test of lines 79-80 finds the target focused
gate_opens(t) == rao_while(t) /\ is_target_window_active

\* One file is loaded into the new runner, then sequences are run.
ExecFairNext ==
    \/ \E doc \in ExecDocs : data = EmptyMap /\ load_file(doc)
    \/ \E name \in Names : run_once_sync(name)
    \/ \E t \in Slots : exec_runs(t)
    \/ settle
    \/ focus_change

\* The loop of asyncio.run runs every callback that is ready and every sleep
\* ends; a run that keeps polling the gate finds the target focused at some
\* poll.
ExecFairSpec ==
    /\ ExecInit
    /\ [][ExecFairNext]_vars
    /\ WF_vars(settle)
    /\ \A t \in Slots : WF_vars(exec_runs(t))
    /\ \A t \in Slots : <>[](pool[t].pc # "rao_while") \/ []<><<gate_opens(t)>>_vars

(***************************************************************************)
(* Periodic workers of sequences whose lists run through: a key press, an  *)
(* empty list, and a second file that gives the same names another list,   *)
(* another interval and another form.                                      *)
(***************************************************************************)
CycleDocA == File("ca.json", JDoc(<<"p", "q">>,
                 [p |-> JDict([every |-> 10, actions |-> <<KeyPress>>]),
                  q |-> JDict([every |-> 5, actions |-> <<>>])]))
CycleDocB == File("cb.json", JDoc(<<"p", "q">>,
                 [p |-> JDict([every |-> 20, actions |-> <<Wait1, KeyPress>>]),
                  q |-> JList(<<Wait1>>)]))
CycleDocs == {CycleDocA, CycleDocB}

CycleNext ==
    \/ \E doc \in CycleDocs : load_file(doc)
    \/ \E name \in Names : start_repeating(name)
    \/ \E name \in Names : stop(name)
    \/ \E t \in Slots : deliver_cancel(t)
    \/ \E t \in Slots : wake_start(t)
    \/ \E t \in Slots : worker_loop(t)
    \/ \E t \in Slots : worker_while(t)
    \/ \E t \in Slots : wake_worker_poll(t)
    \/ \E t \in Slots : wake_interval(t)
    \/ \E t \in Slots : rao_for(t)
    \/ \E t \in Slots : rao_while(t)
    \/ \E t \in Slots : wake_rao_poll(t)
    \/ \E t \in Slots : execute_action(t)
    \/ \E t \in Slots : wake_wait(t)
    \/ \E t \in Slots : wake_key_hold(t)
    \/ settle
    \/ focus_change

CycleSpec == Init /\ [][CycleNext]_vars

\* the form application: executing mode, the packaged WindowDetector
HostInit ==
    /\ dry_run = FALSE
    /\ gating = FALSE
    /\ focused = TRUE
    /\ data = EmptyMap
    /\ order = <<>>
    /\ tasks = EmptyMap
    /\ pool = [s \in Slots |-> Free]
    /\ current = NoTask
    /\ out = NoEvent
    /\ result = NoResult
    /\ host = Form

HostNext ==
    \/ \E doc \in Docs, selected \in Selections : toggle_running_start(doc, selected)
    \/ toggle_running_stop
    \/ join_returns
    \/ poll_status
    \/ on_close
    \/ thread_main
    \/ main_load
    \/ main_start
    \/ main_poll
    \/ loop_stop
    \/ \E t \in Slots : deliver_cancel(t)
    \/ \E t \in Slots : wake_start(t)
    \/ \E t \in Slots : worker_loop(t)
    \/ \E t \in Slots : wake_interval(t)
    \/ \E t \in Slots : resolve(t)
    \/ \E t \in Slots : rao_for(t)
    \/ \E t \in Slots : execute_action(t)
    \/ \E t \in Slots : wake_wait(t)
    \/ \E t \in Slots : wake_key_hold(t)
    \/ \E t \in Slots : wake_mouse_hold(t)
    \/ settle

HostSpec == HostInit /\ [][HostNext]_vars

\* the BackgroundRunner started and stopped by a caller of its own
BgNext ==
    \/ \E doc \in Docs, selected \in SelectedLists : bg_start(doc, selected)
    \/ bg_stop
    \/ thread_main
    \/ main_load
    \/ main_start
    \/ main_poll
    \/ loop_stop
    \/ \E t \in Slots : deliver_cancel(t)
    \/ \E t \in Slots : wake_start(t)
    \/ \E t \in Slots : worker_loop(t)
    \/ \E t \in Slots : wake_interval(t)
    \/ \E t \in Slots : resolve(t)
    \/ \E t \in Slots : rao_for(t)
    \/ \E t \in Slots : execute_action(t)
    \/ \E t \in Slots : wake_wait(t)
    \/ \E t \in Slots : wake_key_hold(t)
    \/ \E t \in Slots : wake_mouse_hold(t)
    \/ settle

BgSpec == HostInit /\ [][BgNext]_vars

\* the form with its global hotkey: toggle_running is called on the Tk thread
\* and on the key listener thread
HotkeyNext ==
    \/ HostNext
    \/ hotkey_press
    \/ \E doc \in Docs, selected \in Selections : hotkey_start(doc, selected)
    \/ hotkey_stop
    \/ hotkey_join
    \/ orphan_ends

HotkeySpec == HostInit /\ [][HotkeyNext]_vars

\* a callback that holds the loop runs on to its next await
task_runs(t) == worker_loop(t) \/ resolve(t) \/ rao_for(t) \/ execute_action(t)

\* The worker thread is scheduled; a callback that is ready (the poll of
\* _main, the end of run_until_complete) is run although tasks keep waking up.
HostFairSpec ==
    /\ HostSpec
    /\ WF_vars(thread_main)
    /\ WF_vars(main_load)
    /\ WF_vars(main_start)
    /\ SF_vars(main_poll)
    /\ SF_vars(loop_stop)
    /\ WF_vars(settle)
    /\ \A t \in Slots : WF_vars(task_runs(t))

(***************************************************************************)
(* Properties                                                              *)
(***************************************************************************)
\* the step is the call op(name)
Called(op, name) == result'.op = op /\ result'.name = name

\* the periodic workers of a name that exist, have not finished and are not cancelled
Uncancelled(name) ==
    {s \in Slots : /\ Live(pool[s])
                   /\ pool[s].kind = "periodic"
                   /\ pool[s].name = name
                   /\ ~pool[s].cancel}

\* a cancelled periodic worker that has not yet terminated
Zombie(s) == Live(pool[s]) /\ pool[s].kind = "periodic" /\ pool[s].cancel

\* C1: for every name at most one periodic worker exists that is neither
\* finished nor cancelled, and it is the one the task map holds.
C1_AtMostOneWorker ==
    \A name \in Names :
        /\ Cardinality(Uncancelled(name)) <= 1
        /\ \A s \in Uncancelled(name) : name \in DOMAIN tasks /\ tasks[name] = s

\* stop(name) immediately followed by start_repeating(name): the old worker
\* is still cancelled-and-pending while the new one is registered
C1_Witness ==
    \E s, u \in Slots :
        /\ s # u
        /\ Zombie(s)
        /\ pool[s].pc \in SleepPcs
        /\ u \in Uncancelled(pool[s].name)
        /\ result = Return("start_repeating", pool[s].name, "ok")

C3_CancelledWorkerStops ==
    [][\A t \in Slots :
        (Zombie(t) /\ pool[t].pc \in SleepPcs)
        => \/ pool'[t] = pool[t]
           \/ /\ pool'[t] = Free
              /\ out' = NoEvent
              /\ result' = Return("task", pool[t].name, "returned")]_vars

\* a worker cancelled while it polls the gate before its second action
C3_Witness ==
    \E s \in Slots : Zombie(s) /\ pool[s].pc = "rao_poll" /\ pool[s].i = 2

\* C4: stop_all empties the task map and cancels every worker that was in it.
C4_StopAllCancelsAll ==
    [][result'.op = "stop_all"
        => /\ DOMAIN tasks' = {}
           /\ \A name \in DOMAIN tasks :
                 ~Live(pool'[tasks[name]]) \/ pool'[tasks[name]].cancel]_vars

\* stop_all has just cancelled two workers
C4_Witness ==
    /\ result.op = "stop_all"
    /\ \E s, u \in Slots : s # u /\ Zombie(s) /\ Zombie(u)

\* C5: stop(name) removes name from the map and cancels its task if it had
\* one, changes nothing if it had none, and in both cases leaves the entries
\* and the tasks of all other names as they were.
C5_StopOnlyName ==
    [][\A name \in Names :
        Called("stop", name)
        => /\ name \notin DOMAIN tasks'
           /\ name \in DOMAIN tasks
                => ~Live(pool'[tasks[name]]) \/ pool'[tasks[name]].cancel
           /\ name \notin DOMAIN tasks => pool' = pool /\ tasks' = tasks
           /\ \A other \in DOMAIN tasks \ {name} :
                 /\ other \in DOMAIN tasks'
                 /\ tasks'[other] = tasks[other]
                 /\ pool'[tasks[other]] = pool[tasks[other]]]_vars

\* stop(name) has cancelled the worker of name while another name stays registered
C5_Witness ==
    /\ result.op = "stop"
    /\ \E s \in Slots : Zombie(s) /\ pool[s].name = result.name
    /\ \E other \in DOMAIN tasks : other # result.name /\ tasks[other] \in Uncancelled(other)

\* C6: start_repeating on a stored bare list fails with InvalidSequenceShape,
\* registers nothing and creates no task, so none of its actions is executed.
C6_ListNeverRepeats ==
    [][\A name \in Names :
        (Called("start_repeating", name) /\ name \in DOMAIN data /\ ~data[name].isdict)
        => /\ result'.outcome = "InvalidSequenceShape"
           /\ tasks' = tasks
           /\ pool' = pool
           /\ out' = NoEvent]_vars

C6_Witness ==
    /\ result.op = "start_repeating"
    /\ result.outcome = "InvalidSequenceShape"
    /\ ~data[result.name].isdict

\* C7: start_repeating on an object form whose `every` is missing, zero or
\* negative fails with InvalidInterval, creates no task and leaves the map
\* unchanged; run_once of the same entry resolves to its `actions` list.
C7_InvalidInterval ==
    [][\A name \in Names :
        (name \in DOMAIN data /\ data[name].isdict /\ Get(data[name].items, "every", 0) <= 0)
        => /\ Called("start_repeating", name)
                => /\ result'.outcome = "InvalidInterval"
                   /\ tasks' = tasks
                   /\ pool' = pool
           /\ \A t \in Slots :
                (current = t /\ pool[t].pc = "resolve" /\ pool[t].name = name
                    /\ pool'[t] # pool[t])
                => /\ pool'[t].pc = "for"
                   /\ pool'[t].actions = data[name].items.actions]_vars

\* the entry without `every` has been refused by start_repeating while a
\* run_once of it is executing its actions
C7_Witness ==
    /\ result = Return("start_repeating", "q", "InvalidInterval")
    /\ "every" \notin DOMAIN data["q"].items
    /\ \E t \in Slots : /\ pool[t].pc \in SleepPcs
                        /\ pool[t].kind = "once"
                        /\ pool[t].name = "q"
                        /\ pool[t].actions = data["q"].items.actions

\* the step in which an action of periodic worker t raises an error
Fails(t) ==
    /\ current = t
    /\ pool[t].kind = "periodic"
    /\ result'.op = "task"
    /\ result'.outcome \in {"UnsupportedAction", "UnknownSubAction"}

\* C8 (as claimed): start_repeating(name) fails with AlreadyRunning only when
\* the periodic task of name is live.
C8_AlreadyRunningOnlyWhenLive ==
    [][\A name \in Names :
        (Called("start_repeating", name) /\ result'.outcome = "AlreadyRunning")
        => name \in DOMAIN tasks /\ Live(pool[tasks[name]])]_vars

\* C9: an error raised by an action of a periodic worker ends that worker
\* only: the step changes no other task and not the task map, and afterwards
\* every other sleeping worker can still be resumed and the runner still
\* takes start_repeating, stop and stop_all.
C9_ErrorEndsOnlyThatWorker ==
    /\ [][\A t \in Slots :
            Fails(t) => /\ tasks' = tasks
                        /\ pool'[t].pc = "failed"
                        /\ \A u \in Slots \ {t} : pool'[u] = pool[u]]_vars
    /\ []((Idle /\ \E t \in Slots : pool[t].pc = "failed")
            => /\ \A u \in Slots : pool[u].pc = "interval" /\ ~pool[u].cancel
                                     => ENABLED wake_interval(u)
               /\ \A name \in Names : ENABLED stop(name)
               /\ \A name \in Names : FreeSlots(pool) # {} => ENABLED start_repeating(name)
               /\ ENABLED stop_all)

\* the worker of p has just failed while the worker of q is asleep, uncancelled
C9_Witness ==
    /\ result = Return("task", "p", "UnsupportedAction")
    /\ \E t \in Slots : pool[t].pc = "failed" /\ pool[t].name = "p"
    /\ \E u \in Uncancelled("q") : pool[u].pc \in SleepPcs

\* C10: in one run of an action list the actions begin in document order,
\* and an action begins only when no action of the run is in progress.
C10_DocumentOrder ==
    \A t \in Slots :
        pool[t].pc # "free"
        => /\ \A k \in 1..Len(pool[t].begun) : pool[t].begun[k] = k
           /\ Cardinality(pool[t].active) <= 1
           /\ pool[t].pc = "exec" => pool[t].active = {}

\* the second action of a run is in progress, the first one has finished
C10_Witness ==
    \E t \in Slots :
        /\ pool[t].pc = "wait"
        /\ pool[t].begun = <<1, 2>>
        /\ pool[t].active = {2}

\* the pcs of the gate loop of _run_actions_once
GatePcs == {"rao_while", "rao_poll"}

\* C11 (as claimed): a periodic worker goes to its interval sleep only from
\* the end of the action list, so every iteration has run the whole list,
\* also one that found the target window unfocused when it started.
C11_IterationRunsList ==
    [][\A t \in Slots :
        (pool[t].pc \notin {"free", "interval"} /\ pool'[t].pc = "interval")
        => /\ pool[t].pc = "for"
           /\ pool[t].i > Len(pool[t].actions)]_vars

\* C12: a run suspended at the gate before action k stays before action k
\* while it polls, begins nothing and emits nothing, and leaves the gate
\* loop only when the target has the focus, to execute action k itself
\* (or it ends there, cancelled).
C12_SuspendedActionNotSkipped ==
    [][\A t \in Slots :
        (pool[t].pc \in GatePcs /\ pool'[t] # pool[t])
        => \/ /\ pool'[t].pc \in GatePcs \cup {"exec"}
              /\ pool'[t].i = pool[t].i
              /\ pool'[t].begun = pool[t].begun
              /\ Len(pool[t].begun) = pool[t].i - 1
              /\ pool'[t].pc = "exec" => focused
              /\ out' = NoEvent
           \/ /\ pool[t].cancel
              /\ pool'[t] = Free
              /\ out' = NoEvent]_vars

\* the run is in the gate loop before its second action and the focus is
\* back: its next step leaves the loop for that action
C12_Witness ==
    \E t \in Slots :
        /\ pool[t].pc = "rao_while"
        /\ pool[t].i = 2
        /\ pool[t].begun = <<1>>
        /\ gating /\ focused
        /\ current = t

\* the indices 1..n in order
UpTo(n) == [k \in 1..n |-> k]

\* C13: a run_once task takes as its list the stored list itself (list form)
\* or the `actions` field (object form, whatever `every` says), begins the
\* actions of that list one by one in order, none twice, and completes only
\* when every action of the list has been begun.
C13_RunOnceRunsAll ==
    [][\A t \in Slots :
        (current = t /\ pool[t].kind = "once" /\ pool'[t] # pool[t])
        => /\ (pool[t].pc = "resolve" /\ pool[t].name \in DOMAIN data)
                => LET seq == data[pool[t].name] IN
                   /\ pool'[t].actions = IF seq.isdict
                                          THEN Get(seq.items, "actions", <<>>)
                                          ELSE seq.items
                   /\ pool'[t].begun = <<>>
           /\ pool'[t].pc # "free"
                => /\ pool'[t].begun = UpTo(Len(pool'[t].begun))
                   /\ Len(pool'[t].begun) <= Len(pool'[t].actions)
           /\ (result'.op = "task" /\ result'.outcome = "done")
                => /\ pool[t].begun = UpTo(Len(pool[t].actions))
                   /\ pool[t].active = {}]_vars

\* a run_once of an object form that declares a positive `every` has completed
C13_Witness ==
    /\ result.op = "task"
    /\ result.outcome = "done"
    /\ ~dry_run
    /\ result.name \in DOMAIN data
    /\ data[result.name].isdict
    /\ Get(data[result.name].items, "every", 0) > 0
    /\ Len(data[result.name].items.actions) = 2

\* C14: run_once of a name that is not in the store fails with NotFound in
\* its first step: no action has begun, no event is emitted, and the store,
\* the task map and all other tasks are as before.
C14_RunOnceNotFound ==
    [][\A t \in Slots :
        (current = t /\ pool[t].pc = "resolve" /\ pool[t].name \notin DOMAIN data
            /\ pool'[t] # pool[t])
        => /\ result' = Return("task", pool[t].name, "NotFound")
           /\ pool[t].begun = <<>>
           /\ out' = NoEvent
           /\ data' = data /\ order' = order
           /\ tasks' = tasks
           /\ ~Live(pool'[t])
           /\ \A u \in Slots \ {t} : pool'[u] = pool[u]]_vars

\* run_once of an unknown name has just failed while a worker was registered
C14_Witness ==
    /\ result.op = "task"
    /\ result.outcome = "NotFound"
    /\ result.name \notin DOMAIN data
    /\ DOMAIN tasks # {}

\* a task is asleep between a press and the release that pairs with it
HoldPcs == {"key_hold", "mouse_hold"}

\* C15 (as claimed): a periodic task that sleeps between the press and the
\* release of a key press/hold or a mouse click/hold leaves that sleep only
\* by emitting the matching release, also when it has been cancelled.
C15_PressIsReleased ==
    [][\A t \in Slots :
        (pool[t].pc \in HoldPcs /\ pool[t].kind = "periodic" /\ pool'[t].pc # pool[t].pc)
        => /\ out'.task = t
           /\ out'.kind = "release"
           /\ out'.dev = (IF pool[t].pc = "key_hold" THEN "kb" ELSE "ms")]_vars

\* the stored sequence is one that start_all_repeating tries to start
Declares(name) == data[name].isdict /\ "every" \in DOMAIN data[name].items

\* C19: start_all_repeating tries, in store order, exactly the object forms
\* that have an `every` key; each of them that has a positive interval and
\* is not in the task map is started, whatever happened to the names before
\* it; the others fail with their own error and nothing else is touched.
C19_StartAllSkipsFailures ==
    [][result'.op = "start_all_repeating"
        => LET log == result'.outcome
               tried == SelectSeq(order, Declares)
           IN /\ [k \in 1..Len(log) |-> log[k][1]] = tried
              /\ \A k \in 1..Len(log) :
                    LET name == log[k][1]
                        every == Get(data[name].items, "every", 0)
                    IN IF every <= 0
                       THEN /\ log[k][2] = "InvalidInterval"
                            /\ name \in DOMAIN tasks' <=> name \in DOMAIN tasks
                       ELSE IF name \in DOMAIN tasks
                       THEN /\ log[k][2] = "AlreadyRunning"
                            /\ tasks'[name] = tasks[name]
                       ELSE /\ log[k][2] = "ok"
                            /\ name \in DOMAIN tasks'
                            /\ pool[tasks'[name]] = Free
                            /\ pool'[tasks'[name]] =
                                  periodic_worker(name, every, data[name].items.actions)
              /\ \A name \in DOMAIN data :
                    ~Declares(name) => (name \in DOMAIN tasks' <=> name \in DOMAIN tasks)
              /\ \A s \in Slots : pool[s] # Free => pool'[s] = pool[s]]_vars

\* the first name failed (invalid interval) and the name after it was started
C19_Witness ==
    /\ result.op = "start_all_repeating"
    /\ result.outcome = << <<"p", "InvalidInterval">>, <<"q", "ok">> >>
    /\ DOMAIN tasks = {"q"}
    /\ pool[tasks["q"]].pc = "start"

\* C20 (as claimed): in executing mode execute_action returns for an action
\* with a non-zero `delay` only from the delay sleep that follows the action,
\* so the run reaches the next action only after that sleep.
C20_DelayIsSlept ==
    [][\A t \in Slots :
        (/\ ~dry_run
         /\ pool[t].pc \notin {"free", "start", "resolve", "loop"}
         /\ pool'[t].pc # "free"
         /\ pool[t].i \in 1..Len(pool[t].actions)
         /\ pool'[t].i = pool[t].i + 1
         /\ Get(Act(pool[t]), "delay", 0) # 0)
        => pool[t].pc = "delay"]_vars

\* the worker thread has ended, or the process has
Ended == {"ended", "killed"}

\* C16: once BackgroundRunner.stop has set the stop event the worker thread
\* ends, wherever it was at that moment; the poll that finds the event set
\* calls stop_all (empty task map, every registered task cancelled); and
\* after the thread has ended no task takes a step or emits an event, the
\* one-shot runs that are in no task map included.
C16_StopEndsWorker ==
    /\ (host.stop_event /\ host.thread \in Alive) ~> (host.thread \in Ended)
    /\ [][(host.thread = "polling" /\ host'.thread \in Alive \ {"polling"})
            => /\ host.stop_event
               /\ tasks' = EmptyMap
               /\ \A name \in DOMAIN tasks :
                     ~Live(pool'[tasks[name]]) \/ pool'[tasks[name]].cancel]_vars
    /\ [][(host.thread \in Ended /\ host'.thread \in Ended)
            => out' = NoEvent /\ pool' = pool /\ current' = current]_vars

\* the worker has ended after a stop while a one-shot run that stop_all did
\* not cancel is still pending, between a press and its release
C16_Witness ==
    /\ host.thread = "ended"
    /\ host.stop_event
    /\ \E t \in Slots : /\ Live(pool[t])
                        /\ pool[t].kind = "once"
                        /\ ~pool[t].cancel
                        /\ pool[t].pc \in SleepPcs

\* C17 (as claimed): the window is destroyed while the automation runs only
\* after the stop event has been set and the host thread has waited in the
\* bounded join.
C17_CloseStopsScheduler ==
    [][(host.window = "open" /\ host'.window = "destroyed"
            /\ host.is_running /\ host.thread \in Alive)
        => host.stop_event /\ host.pc = "join"]_vars

\* C18 (as claimed): the form never shows a stop without error while the
\* worker thread is alive.
C18_TimeoutIsReported ==
    host.thread \in Alive => host.status # "Auto mode stopped"

\* C21 (as claimed): in executing mode the first press or release event of a
\* key action is emitted by the step that ends the pre-delay sleep of the
\* action, never by the step that starts the action.
C21_PreDelayBeforeKey ==
    [][\A t \in Slots :
        (/\ ~dry_run
         /\ out'.task = t
         /\ out'.dev = "kb"
         /\ pool[t].pc # "key_hold")
        => pool[t].pc = "pre_delay"]_vars

\* C22: the chance gate lets an action through exactly when `chance` is
\* absent, or is 100 or more, or lies strictly between 0 and 100 and the one
\* draw made for the action, a value of 1..100, is at most `chance`; with a
\* chance of 0 or less the action is not executed and no draw is made.  (A
\* task that the dispatched action ends has left no record of its draw.)
C22_ChanceGate ==
    [][\A t \in Slots :
        (pool[t].pc = "exec" /\ pool'[t] # pool[t])
        => LET a == Act(pool[t])
               ended == pool'[t].pc = "free"
               executed == ended \/ pool'[t].ran = Append(pool[t].ran, pool[t].i)
               absent == "chance" \notin DOMAIN a
               drawn == ~absent /\ a.chance > 0 /\ a.chance < 100
           IN /\ executed <=> \/ absent
                              \/ ~absent /\ a.chance >= 100
                              \/ drawn /\ (ended \/ pool'[t].draw <= a.chance)
              /\ (~absent /\ a.chance <= 0) => ~executed
              /\ ~ended => IF drawn THEN pool'[t].draw \in 1..100 ELSE pool'[t].draw = 0
    ]_vars

\* a chance of 50 and a draw of 50: the key of the action is down
C22_Witness ==
    \E t \in Slots :
        /\ pool[t].pc = "key_hold"
        /\ Get(Act(pool[t]), "chance", 0) = 50
        /\ pool[t].draw = 50
        /\ out = Event(t, "kb", "press", parse_key("numpad5"))

\* C23: the step in which the chance gate fails for an action dispatches
\* nothing and emits no event, and the task is back at the head of the for
\* loop with the next action in turn, still holding the loop: it has slept on
\* nothing, the trailing `delay` of the action included.
C23_SkippedActionDoesNothing ==
    [][\A t \in Slots :
        (/\ pool[t].pc = "exec"
         /\ pool'[t] # pool[t]
         /\ pool'[t].pc # "free"
         /\ "chance" \in DOMAIN Act(pool[t])
         /\ \/ Act(pool[t]).chance <= 0
            \/ Act(pool[t]).chance < 100 /\ pool'[t].draw > Act(pool[t]).chance)
        => /\ pool'[t].ran = pool[t].ran
           /\ out' = NoEvent
           /\ result' = NoResult
           /\ pool'[t].pc = "for"
           /\ pool'[t].i = pool[t].i + 1
           /\ pool[t].i \notin pool'[t].active
           /\ current' = t
    ]_vars

\* in executing mode a key action with chance 0 and a delay has been skipped,
\* the second action of the list is in turn
C23_Witness ==
    \E t \in Slots :
        /\ ~dry_run
        /\ pool[t].pc = "for"
        /\ pool[t].i = 2
        /\ pool[t].actions[1] = Never
        /\ pool[t].begun = <<1>>
        /\ pool[t].ran = <<>>
        /\ current = t

\* C24: when the action in turn of a run_once has an unknown type, then in
\* executing mode the task fails with UnsupportedAction in that very step,
\* every action before it having been handed to the executor in order, and so
\* executes nothing after it; in dry-run mode the step raises nothing and
\* leaves the next action in turn, and a dry run that completes has processed
\* every action of its list.
C24_UnknownTypeFails ==
    [][\A t \in Slots :
        /\ (/\ pool[t].pc = "exec"
            /\ pool[t].kind = "once"
            /\ pool'[t] # pool[t]
            /\ "chance" \notin DOMAIN Act(pool[t])
            /\ Get(Act(pool[t]), "type", "key")
                   \notin {"wait", "superwait", "key", "mouse", "repeat"})
           => IF dry_run
              THEN /\ result' = NoResult
                   /\ pool'[t].pc = "for"
                   /\ pool'[t].i = pool[t].i + 1
              ELSE /\ result' = Return("task", pool[t].name, "UnsupportedAction")
                   /\ ~Live(pool'[t])
                   /\ pool[t].begun = [k \in 1..(pool[t].i - 1) |-> k]
        /\ (/\ dry_run
            /\ pool[t].pc = "for"
            /\ pool[t].kind = "once"
            /\ result' = Return("task", pool[t].name, "done"))
           => pool[t].begun = [k \in 1..Len(pool[t].actions) |-> k]
    ]_vars

\* in executing mode the run_once of q, whose second action is of type
\* `bogus`, has just failed
C24_Witness ==
    /\ ~dry_run
    /\ "q" \in DOMAIN data
    /\ Len(ResolvedActions(data["q"])) >= 2
    /\ ResolvedActions(data["q"])[2] = Bogus
    /\ result = Return("task", "q", "UnsupportedAction")
    /\ NoLoop

\* C25: in dry-run mode no step emits an input event: no key press or
\* release, no mouse press or release, no cursor move.
C25_DryRunEmitsNothing ==
    dry_run => out = NoEvent

\* a dry run has been through a key press, an unknown action and a click at
\* a position, in a periodic worker
C25_Witness ==
    \E t \in Slots :
        /\ dry_run
        /\ pool[t].pc = "interval"
        /\ pool[t].kind = "periodic"
        /\ pool[t].actions = <<KeyPress, Bogus, MoveClick>>
        /\ pool[t].ran = <<1, 2, 3>>

\* the entries a document gives, under its `sequences` key or at its top level
Entries(doc) ==
    IF "sequences" \in DOMAIN doc.items /\ doc.items["sequences"].isdict
    THEN doc.items["sequences"]
    ELSE doc

\* structural equality of two sequences (a list and an object are never equal)
Same(a, b) == a.isdict = b.isdict /\ a.items = b.items

\* the position of a name in a list of names, 0 when it is not there
IndexOf(names, n) ==
    IF \E k \in 1..Len(names) : names[k] = n
    THEN CHOOSE k \in 1..Len(names) : names[k] = n
    ELSE 0

\* the step is the load of the document doc
Loads(doc) == result'.op = "load_file" /\ result'.name = doc.path

\* C26: a load of an object document merges it into the store by name: every
\* name of the document has the document's entry afterwards, every other name
\* of the store keeps its entry, and list_sequences is the list of before (an
\* overwritten name stays where it was) followed by the new names in the
\* order of the document, every name once.
C26_MergeLastWins ==
    [][\A doc \in Docs :
        (doc.isdict /\ Loads(doc))
        => LET e == Entries(doc)
               fresh == {n \in DOMAIN e.items : n \notin DOMAIN data}
           IN /\ DOMAIN data' = DOMAIN data \cup DOMAIN e.items
              /\ \A n \in DOMAIN e.items : Same(get_sequence(n)', e.items[n])
              /\ \A n \in DOMAIN data \ DOMAIN e.items :
                    Same(get_sequence(n)', get_sequence(n))
              /\ Len(list_sequences') = Cardinality(DOMAIN data')
              /\ SubSeq(list_sequences', 1, Len(list_sequences)) = list_sequences
              /\ \A n \in fresh : IndexOf(list_sequences', n) > Len(list_sequences)
              /\ \A n, m \in fresh :
                    IndexOf(e.keys, n) < IndexOf(e.keys, m)
                    => IndexOf(list_sequences', n) < IndexOf(list_sequences', m)
    ]_vars

\* q was loaded first, then p and q, then q again: p has the entry of the
\* second load, q that of the third, and q is still listed first
C26_Witness ==
    /\ result = Loaded("d.json", <<"q", "p">>)
    /\ list_sequences = <<"q", "p">>
    /\ Same(get_sequence("p"), DocC.items["p"])
    /\ Same(get_sequence("q"), DocD.items["q"])

\* C27 (as claimed): the list that a load returns holds only names of the
\* loaded document: a name that the store has from an earlier load alone is
\* not in it.
C27_LoadReturnsNewNames ==
    [][\A doc \in Docs :
        (doc.isdict /\ Loads(doc))
        => \A k \in 1..Len(result'.names) :
              result'.names[k] \in DOMAIN Entries(doc).items
    ]_vars

\* C28: after the load of an object document, wrapped or not, every name of
\* the document is listed by list_sequences, and get_sequence gives for it a
\* sequence structurally equal to the entry of the document, list form or
\* object form.
C28_RoundTrip ==
    [][\A doc \in Docs :
        (doc.isdict /\ Loads(doc))
        => \A n \in DOMAIN Entries(doc).items :
              /\ IndexOf(list_sequences', n) > 0
              /\ n \in DOMAIN data'
              /\ Same(get_sequence(n)', Entries(doc).items[n])
    ]_vars

\* the wrapped document has just been loaded: p is a list, q an object
C28_Witness ==
    /\ result.op = "load_file"
    /\ result.name = DocB.path
    /\ "sequences" \in DOMAIN DocB.items
    /\ list_sequences = <<"p", "q">>
    /\ ~get_sequence("p").isdict
    /\ get_sequence("p").items = <<KeyPress, Bogus, MoveClick>>
    /\ get_sequence("q").isdict
    /\ get_sequence("q").items = [actions |-> <<Click, Wait1>>]

\* C29: the load of a document whose top level is no object fails with
\* UnsupportedFormat and leaves the store, the list of names, the task map
\* and the tasks as they were.
C29_UnsupportedFormat ==
    [][\A doc \in Docs :
        (~doc.isdict /\ Loads(doc))
        => /\ result' = Return("load_file", doc.path, "UnsupportedFormat")
           /\ UNCHANGED <<data, order, tasks, pool>>
    ]_vars

\* the load of a list document has just failed while the store has two
\* sequences and a worker is registered
C29_Witness ==
    /\ result = Return("load_file", DocE.path, "UnsupportedFormat")
    /\ ~DocE.isdict
    /\ DOMAIN data = {"p", "q"}
    /\ DOMAIN tasks # {}

\* the key names "numpad0" .. "numpad9"
NumpadNames == <<"numpad0", "numpad1", "numpad2", "numpad3", "numpad4", "numpad5",
                 "numpad6", "numpad7", "numpad8", "numpad9">>

\* C30 (as claimed): the key that a key action named "num0" .. "num9" presses
\* or releases is the numpad key of its digit, virtual key code 96 + digit,
\* the key of "numpad0" .. "numpad9", and never the num-lock key.
C30_NumAliasIsNumpadDigit ==
    [][\A t \in Slots : \A d \in 0..9 :
        (/\ out'.task = t
         /\ out'.dev = "kb"
         /\ pool[t].pc = "exec"
         /\ Get(Act(pool[t]), "key", None) = NumNames[d + 1])
        => /\ out'.what = KeyCode_from_vk(96 + d)
           /\ out'.what = parse_key(NumpadNames[d + 1])
           /\ out'.what # Key("num_lock")
    ]_vars

(***************************************************************************)
(* The repeat action                                                       *)
(***************************************************************************)
\* the pcs at which execute_action is about to be called for an action
StartPcs == {"exec", "inner_exec"}

\* C31 (as claimed): with window gating enabled, every action, the actions
\* nested inside a repeat included, starts only right after a gate test that
\* found the target focused: a task comes to the call of execute_action only
\* from the gate test or the gate loop of _run_actions_once, with the target
\* focused, and no
\* nested action is executed while the target is unfocused.
C31_GateBeforeEveryAction ==
    [][\A t \in Slots :
        /\ (gating /\ pool'[t].pc \in StartPcs /\ pool[t].pc # pool'[t].pc)
           => (pool[t].pc \in {"for", "rao_while"} /\ focused)
        /\ (gating /\ pool[t].pc = "inner_exec" /\ pool'[t] # pool[t])
           => focused
    ]_vars

\* the pcs inside _execute_repeat from which it returns
RepeatPcs == {"repeat_while", "repeat_for"}

\* task t is on the step on which _execute_repeat returns
RepeatReturns(t) == pool[t].pc \in RepeatPcs /\ pool'[t].pc = "for"

\* the runs of the inner list that _execute_repeat has made when it returns:
\* its `i`, incremented once more on the way out through the break
RunsMade(t) == IF pool[t].pc = "repeat_for" THEN pool[t].r + 1 ELSE pool[t].r

\* C32 (as claimed): a repeat with count = n and every > 0 has executed its
\* inner list exactly n times when it returns; with every <= 0 it has executed
\* the list exactly once, whatever the count (0 and 2 included).
C32_RepeatRuns ==
    [][\A t \in Slots :
        RepeatReturns(t)
        => LET a == pool[t].actions[pool[t].i]
           IN RunsMade(t) = IF Get(a, "every", 0) > 0 THEN a.count ELSE 1
    ]_vars

\* C33 (as claimed): a repeat with count = n >= 1 and every > 0 sleeps its
\* interval only between repetitions: when it returns it has completed exactly
\* n - 1 interval sleeps and returns straight from the end of the n-th run of
\* the inner list, with no sleep after it.
C33_WaitsOnlyBetween ==
    [][\A t \in Slots :
        LET a == pool[t].actions[pool[t].i]
        IN (/\ RepeatReturns(t)
            /\ HasCount(a)
            /\ a.count >= 1
            /\ Get(a, "every", 0) > 0)
           => /\ pool[t].w = a.count - 1
              /\ pool[t].pc = "repeat_for"
    ]_vars

\* the step reports that a task has failed with the error `outcome`
Fails_with(outcome) == result'.op = "task" /\ result'.outcome = outcome

\* C39 (as claimed): an action that fails with UnknownSubAction (type key or
\* mouse, unknown verb) fails before any side effect: the failure is raised on
\* the step that starts the action, so that no key event, no button event and
\* no cursor movement has been emitted for it.
C39_UnknownVerbNoSideEffect ==
    [][Fails_with("UnknownSubAction")
       => /\ out' = NoEvent
          /\ \E t \in Slots : current = t /\ pool[t].pc \in StartPcs
    ]_vars

\* the repeat action never leaves its loop: no count and a positive interval
Endless(action) ==
    /\ Get(action, "type", "key") = "repeat"
    /\ "count" \notin DOMAIN action
    /\ Get(action, "every", 0) > 0

\* run_once of task t is at the head of an action list with no endless repeat
BeginsFinite(t) ==
    /\ pool[t].pc = "for"
    /\ pool[t].i = 1
    /\ \A k \in 1..Len(pool[t].actions) : ~Endless(pool[t].actions[k])

\* task t is inside the repeat action in turn, which is endless
InEndless(t) ==
    /\ pool[t].pc \in RepeatPcs \cup {"inner_exec", "repeat_sleep", "key_hold", "wait"}
    /\ Endless(pool[t].actions[pool[t].i])

\* C40: with the loop and the sleeps fair and a gate that finds the target
\* focused at some poll, run_once on an action list with no endless repeat (a
\* repeat with no count and every > 0) ends; a run that has entered an endless
\* repeat stays in it: it never ends and begins no action after the repeat.
C40_RunOnceTerminates ==
    /\ \A t \in Slots : BeginsFinite(t) ~> (pool[t].pc = "free")
    /\ [][\A t \in Slots :
            InEndless(t) => /\ InEndless(t)'
                            /\ pool'[t].i = pool[t].i
                            /\ pool'[t].begun = pool[t].begun]_vars

\* C40 witness: under window gating, a run of a list that holds a counted
\* repeat has returned
C40_Witness ==
    /\ gating
    /\ result = Return("task", "p", "done")
    /\ \E k \in 1..Len(data["p"].items) : data["p"].items[k] = Rep2

(***************************************************************************)
(* The rounds of a periodic worker                                         *)
(***************************************************************************)
\* the step is a step of the periodic worker in slot t, which is not cancelled
WorkerSteps(t) ==
    /\ pool[t].pc # "free"
    /\ pool[t].kind = "periodic"
    /\ pool'[t] # pool[t]
    /\ pool'[t].pc # "free"
    /\ ~pool[t].cancel
    /\ ~pool'[t].cancel

\* C34: a periodic worker whose gate is always active starts the first
\* execution of its list on its first step, before any interval sleep, and
\* from then on executions and interval sleeps alternate strictly until it is
\* cancelled: an execution starts only on the first step and after a
\* completed interval sleep, and the interval sleep starts only at the end of
\* an execution, so the executions started are always the sleeps completed
\* plus one; a key press of the list is one press followed, after the hold, by
\* one release of the same key.
C34_RoundsAlternate ==
    [][~gating =>
        \A t \in Slots :
            WorkerSteps(t) =>
                LET old == pool[t]
                    new == pool'[t]
                IN /\ old.pc = "start" => new.pc = "loop"
                   /\ old.pc = "loop" => (new.pc = "for" /\ new.i = 1)
                   /\ new.pc = "loop" => old.pc \in {"start", "interval"}
                   /\ new.pc = "interval" => (old.pc = "for" /\ old.i > Len(old.actions))
                   /\ old.pc = "interval" => new.pc = "loop"
                   /\ (out'.task = t /\ out'.kind = "press")
                      => (old.pc = "exec" /\ new.pc = "key_hold")
                   /\ (out'.task = t /\ out'.kind = "release") => old.pc = "key_hold"
                   /\ old.pc = "key_hold"
                      => /\ out' = Event(t, "kb", "release", parse_key(Act(old).key))
                         /\ new.pc = "for"
                         /\ new.i = old.i + 1
    ]_vars

\* in executing mode without gating, a worker that has pressed and released
\* its key and slept its interval is about to start its next round
C34_Witness ==
    /\ ~gating
    /\ ~dry_run
    /\ \E t \in Slots :
        /\ pool[t].pc = "loop"
        /\ pool[t].kind = "periodic"
        /\ ~pool[t].cancel
        /\ pool[t].ran # <<>>
        /\ Act([pool[t] EXCEPT !.i = pool[t].ran[1]]) = KeyPress

\* the periodic worker in slot t is there before and after the step
WorkerStays(t) ==
    /\ pool[t].pc # "free"
    /\ pool[t].kind = "periodic"
    /\ pool'[t].pc # "free"

\* C35: a periodic worker runs with the action list and the interval that
\* start_repeating read from the store when it created the worker: they never
\* change while the worker exists, and a load, whatever it does to the entry
\* of the name (another list, another interval, a list form), changes neither
\* a task nor the task map.
C35_WorkerKeepsItsList ==
    [][/\ result'.op = "load_file" => (pool' = pool /\ tasks' = tasks)
       /\ \A t \in Slots :
            WorkerStays(t) => /\ pool'[t].name = pool[t].name
                              /\ pool'[t].actions = pool[t].actions
                              /\ pool'[t].every = pool[t].every
       /\ \A name \in Names :
            (Called("start_repeating", name) /\ result'.outcome = "ok")
            => /\ pool'[tasks'[name]].actions = Get(data[name].items, "actions", <<>>)
               /\ pool'[tasks'[name]].every = EveryOf(data[name])
    ]_vars

\* the workers of p and q run while the store, loaded again, gives p another
\* list and another interval and q the list form; p holds the key of its own list
C35_Witness ==
    /\ {"p", "q"} \subseteq DOMAIN tasks
    /\ {"p", "q"} \subseteq DOMAIN data
    /\ ~data["q"].isdict
    /\ EveryOf(data["p"]) = 20
    /\ pool[tasks["q"]].pc = "interval"
    /\ pool[tasks["p"]].pc = "key_hold"
    /\ pool[tasks["p"]].every = 10
    /\ pool[tasks["p"]].actions = <<KeyPress>>

\* the loop resumes task u: its sleep is over, or it has been cancelled
resumes(u) ==
    \/ wake_start(u) \/ wake_interval(u) \/ wake_worker_poll(u) \/ wake_rao_poll(u)
    \/ wake_wait(u) \/ wake_key_hold(u) \/ deliver_cancel(u)

\* C36: no periodic worker holds the loop from one round to the next, in any
\* mode and with any list: its interval is positive, a round starts only when
\* the loop resumes the worker from a sleep (its first step or the end of the
\* interval sleep), a worker that sleeps does not hold the loop, and while it
\* sleeps its interval the loop can resume every other task that is ready.
C36_WorkerYieldsEachRound ==
    [][\A t \in Slots :
        /\ WorkerStays(t) =>
            /\ pool[t].every > 0
            /\ (pool'[t].pc = "loop" /\ pool[t].pc # "loop")
               => (pool[t].pc \in {"start", "interval"} /\ current = NoTask)
            /\ (pool'[t].pc = "for" /\ pool'[t].i = 1 /\ pool[t].pc # "for")
               => pool[t].pc = "loop"
            /\ pool'[t].pc \in SleepPcs => current' # t
        /\ (WorkerStays(t) /\ pool[t].pc = "interval" /\ Idle)
           => \A u \in Slots \ {t} :
                pool[u].pc \in SleepPcs \cup {"start"} => ENABLED resumes(u)
    ]_vars

\* a worker with an empty list has run a round and sleeps its interval while
\* the worker of the other name waits to be resumed
C36_Witness ==
    /\ ~dry_run
    /\ Idle
    /\ {"p", "q"} \subseteq DOMAIN tasks
    /\ pool[tasks["q"]].pc = "interval"
    /\ pool[tasks["q"]].actions = <<>>
    /\ pool[tasks["p"]].pc = "key_hold"

(***************************************************************************)
(* Start-up of the BackgroundRunner                                        *)
(***************************************************************************)
\* C38 (as claimed): when start_repeating raises for a selected name during
\* the start-up of _main, the worker thread ends with the error recorded in
\* _exc, and no action of a selected sequence is executed: no task, the ones
\* started before the failure included, begins an action or emits an event.
C38_FailedStartRunsNothing ==
    [][host.thread = "failing"
       => /\ out' = NoEvent
          /\ \A t \in Slots : pool'[t].pc # "free" => pool'[t].begun = <<>>
          /\ host'.thread \notin {"failing", "killed"}
             => (host'.thread = "ended" /\ host'.exc = "AlreadyRunning")
    ]_vars

(***************************************************************************)
(* toggle_running from two threads                                         *)
(***************************************************************************)
\* the worker threads of BackgroundRunners that are alive
LiveThreads == host.orphans + (IF host.thread \in Alive THEN 1 ELSE 0)

\* C37 (as claimed): however the calls of toggle_running from the Tk thread
\* and from the key listener thread interleave, at most one worker thread is
\* alive at a time, and no runner with a live thread is lost to _bg_runner.
C37_OneRunnerAtATime ==
    /\ LiveThreads <= 1
    /\ host.orphans = 0

====
